---- MODULE Spec2Model ----
(***************************************************************************)
(* Model of the monthly on-call scheduler (scheduler.ts): generateSchedule *)
(* with its lock validator, the two backtracking passes of solveWithCaps   *)
(* and the partial-proposal builder.                                       *)
(*                                                                         *)
(* A month is represented by its number of days and the JS weekday of its  *)
(* first day (0 = Sunday .. 6 = Saturday); everything the scheduler reads  *)
(* from (year, month) is a function of these two.  A weekend-block key is  *)
(* represented by the day offset of its Friday within the month (0 or a    *)
(* negative number when that Friday lies in the previous month), which is  *)
(* in one-to-one correspondence with the formatted date string.            *)
(* A raw numeric setting is a record [finite, twice]: the number twice/2,  *)
(* or a non-finite / missing value when finite is FALSE.                   *)
(***************************************************************************)
EXTENDS Integers, Sequences, FiniteSets, TLC

VARIABLES
    input,            \* the ScheduleInput of this call
    pc,               \* position in generateSchedule
    sp,               \* position inside solveWithCaps / backtrack
    state,            \* SolveState of the running pass
    stack,            \* frames of the recursive backtrack() calls
    retVal,           \* value returned by the backtrack() call that just ended
    rng,              \* state s of the seeded generator of makeRng
    strictAttempt,    \* result of the strict pass
    fallbackAttempt,  \* result of the relaxed pass
    proposal,         \* partial proposal under construction / built
    result,           \* the ScheduleResult
    runNo,            \* which call on the same request this is (1 or 2)
    firstResult       \* the result of the first call, once a second one runs

vars == <<input, pc, sp, state, stack, retVal, rng, strictAttempt,
          fallbackAttempt, proposal, result, runNo, firstResult>>

-----------------------------------------------------------------------------
(* Bounds of the model *)

MaxDays == 3
MaxDoctors == 3
MaxPrefs == 2
LongDays == 13

-----------------------------------------------------------------------------
(* Doctors and constants *)

NoDoctor == 0

DefaultMaxShifts == 5

MaxWeekendBlocks == 2

DoctorRecord(i) ==
    [id |-> i, order |-> i,
     role |-> IF i = 1 THEN "primar" ELSE IF i = 2 THEN "zastupce" ELSE "regular"]

AMBULANCE_WEEKDAYS_BY_DOCTOR_ID(id) ==
    CASE id = 1 -> {4}
      [] id = 2 -> {2}
      [] id = 3 -> {1}
      [] id = 4 -> {4}
      [] id = 5 -> {5}
      [] id = 6 -> {3}
      [] id = 7 -> {2}
      [] id = 9 -> {5}
      [] id = 10 -> {3}
      [] OTHER -> {}

Range(s) == {s[i] : i \in 1..Len(s)}

DoctorIds == {input.doctors[i].id : i \in 1..Len(input.doctors)}

\* doctors.find((d) => d.id === docId); only used when the id exists
DoctorById(id) ==
    LET i == CHOOSE i \in 1..Len(input.doctors) :
                 /\ input.doctors[i].id = id
                 /\ \A j \in 1..(i - 1) : input.doctors[j].id # id
    IN input.doctors[i]

isLeadershipDoctor(doctor) == doctor.role = "primar" \/ doctor.role = "zastupce"

isCertifiedDoctor(doctor) == doctor.order <= 5

-----------------------------------------------------------------------------
(* Calendar *)

daysInMonth == input.days

weekday(day) == (input.firstWeekday + day - 1) % 7

isWeekendServiceDay(day) == weekday(day) \in {5, 6, 0}

isTuesdayOrThursday(day) == weekday(day) \in {2, 4}

\* <<>> when the day is no Friday/Saturday/Sunday, else <<key>>
weekendBlockKey(day) ==
    LET wd == weekday(day)
    IN IF wd \notin {5, 6, 0} THEN <<>>
       ELSE <<day + (IF wd = 5 THEN 0 ELSE IF wd = 6 THEN -1 ELSE -2)>>

-----------------------------------------------------------------------------
(* Capacity and target models *)

Floor(raw) == raw.twice \div 2

Max0(n) == IF n < 0 THEN 0 ELSE n

initialCaps ==
    [id \in DoctorIds |->
        LET doctor == DoctorById(id)
        IN IF doctor.role = "primar" THEN 1
           ELSE IF doctor.role = "zastupce" THEN 2
           ELSE LET maxRaw == input.maxShiftsByDoctor[id]
                    max == IF maxRaw.finite THEN Floor(maxRaw) ELSE DefaultMaxShifts
                IN Max0(max)]

sanitizeTargets ==
    [id \in DoctorIds |->
        LET raw == input.targetShiftsByDoctor[id]
            target == IF raw.finite THEN Floor(raw) ELSE 0
        IN Max0(target)]

hasCrossMonthRestBlock(doctorId, lastDoctorId) == lastDoctorId = doctorId

preferenceAt(doctorId, day) == input.preferences[doctorId][day]

lockedDoctor(day) == input.locks[day]

-----------------------------------------------------------------------------
(* Conditional "want" resolution *)

\* ids of the doctors of s (a sequence of doctor records) in ascending order
\* number, doctors of equal order number in array order (stable sort)
RECURSIVE SortByOrder(_)
SortByOrder(s) ==
    IF Len(s) = 0 THEN <<>>
    ELSE LET i == CHOOSE i \in 1..Len(s) :
                      /\ \A j \in 1..Len(s) : s[i].order <= s[j].order
                      /\ \A j \in 1..(i - 1) : s[j].order # s[i].order
             rest == [k \in 1..(Len(s) - 1) |-> IF k < i THEN s[k] ELSE s[k + 1]]
         IN <<s[i]>> \o SortByOrder(rest)

IdsOf(s) == [i \in 1..Len(s) |-> s[i].id]

\* computeWantedDoctorsByDay without the sort of line 95 (array order)
computeWantedDoctorsByDayUnsorted ==
    [day \in 1..daysInMonth |->
        IdsOf(SelectSeq(input.doctors,
                        LAMBDA doctor : preferenceAt(doctor.id, day) = 3))]

computeWantedDoctorsByDay ==
    [day \in 1..daysInMonth |->
        IdsOf(SortByOrder(SelectSeq(input.doctors,
                                    LAMBDA doctor : preferenceAt(doctor.id, day) = 3)))]

CountOf(counts, id) == IF id \in DOMAIN counts THEN counts[id] ELSE 0

forcedWantDoctorForDay(day, wantedDoctorsByDay, counts, targets) ==
    LET wantedIds == wantedDoctorsByDay[day]
        open == {i \in 1..Len(wantedIds) :
                    CountOf(counts, wantedIds[i]) < CountOf(targets, wantedIds[i])}
    IN IF open = {} THEN NoDoctor
       ELSE wantedIds[CHOOSE i \in open : \A j \in open : i <= j]

-----------------------------------------------------------------------------
(* Working state *)

AssignedAt(st, day) ==
    IF day \in DOMAIN st.assignments THEN st.assignments[day] ELSE NoDoctor

BlockCount(st, doctorId, key) ==
    IF doctorId \in DOMAIN st.weekendBlocksByDoctor
       /\ key \in DOMAIN st.weekendBlocksByDoctor[doctorId]
    THEN st.weekendBlocksByDoctor[doctorId][key] ELSE 0

createInitialState ==
    [assignments |-> <<>>,
     counts |-> [id \in DoctorIds |-> 0],
     weekendBlocksByDoctor |-> [id \in DoctorIds |-> <<>>],
     weekendBlockTotals |-> [id \in DoctorIds |-> 0]]

\* applyAssignment raising the distinct-block total on every weekend day
\* (without the test of line 398)
applyAssignmentCountsEveryWeekendDay(st, day, doctorId) ==
    LET weekendKey == weekendBlockKey(day)
        st1 == [st EXCEPT !.assignments = (day :> doctorId) @@ st.assignments,
                          !.counts[doctorId] = CountOf(st.counts, doctorId) + 1]
    IN IF weekendKey = <<>> THEN st1
       ELSE LET key == weekendKey[1]
                prevCount == BlockCount(st, doctorId, key)
                byDoctor == (key :> (prevCount + 1)) @@ st.weekendBlocksByDoctor[doctorId]
            IN [st1 EXCEPT !.weekendBlocksByDoctor[doctorId] = byDoctor,
                           !.weekendBlockTotals[doctorId] = @ + 1]

applyAssignment(st, day, doctorId) ==
    LET weekendKey == weekendBlockKey(day)
        st1 == [st EXCEPT !.assignments = (day :> doctorId) @@ st.assignments,
                          !.counts[doctorId] = CountOf(st.counts, doctorId) + 1]
    IN IF weekendKey = <<>> THEN st1
       ELSE LET key == weekendKey[1]
                prevCount == BlockCount(st, doctorId, key)
                byDoctor == (key :> (prevCount + 1)) @@ st.weekendBlocksByDoctor[doctorId]
            IN [st1 EXCEPT !.weekendBlocksByDoctor[doctorId] = byDoctor,
                           !.weekendBlockTotals[doctorId] =
                               IF prevCount = 0 THEN @ + 1 ELSE @]

\* undoAssignment leaving the key of a weekend block whose count returns to
\* zero in the doctor's map (with the count 0)
undoAssignmentKeepsBlockKey(st, day, doctorId) ==
    LET weekendKey == weekendBlockKey(day)
        st1 == [st EXCEPT !.assignments = [d \in DOMAIN st.assignments \ {day} |->
                                               st.assignments[d]],
                          !.counts[doctorId] = @ - 1]
    IN IF weekendKey = <<>> THEN st1
       ELSE LET key == weekendKey[1]
                byDoctor == st.weekendBlocksByDoctor[doctorId]
                prevCount == BlockCount(st, doctorId, key)
            IN IF prevCount <= 1
               THEN [st1 EXCEPT !.weekendBlocksByDoctor[doctorId] =
                                    (key :> 0) @@ byDoctor,
                                !.weekendBlockTotals[doctorId] = @ - 1]
               ELSE [st1 EXCEPT !.weekendBlocksByDoctor[doctorId] =
                                    (key :> (prevCount - 1)) @@ byDoctor]

\* the undo block at the end of the candidate loop of backtrack()
undoAssignment(st, day, doctorId) ==
    LET weekendKey == weekendBlockKey(day)
        st1 == [st EXCEPT !.assignments = [d \in DOMAIN st.assignments \ {day} |->
                                               st.assignments[d]],
                          !.counts[doctorId] = @ - 1]
    IN IF weekendKey = <<>> THEN st1
       ELSE LET key == weekendKey[1]
                byDoctor == st.weekendBlocksByDoctor[doctorId]
                prevCount == BlockCount(st, doctorId, key)
            IN IF prevCount <= 1
               THEN [st1 EXCEPT !.weekendBlocksByDoctor[doctorId] =
                                    [k \in DOMAIN byDoctor \ {key} |-> byDoctor[k]],
                                !.weekendBlockTotals[doctorId] = @ - 1]
               ELSE [st1 EXCEPT !.weekendBlocksByDoctor[doctorId] =
                                    (key :> (prevCount - 1)) @@ byDoctor]

-----------------------------------------------------------------------------
(* Hard feasibility predicates *)

\* isHardAllowed without the "cannot" rule (lines 141-144)
isHardAllowedIgnoringCannot(day, doctor, st, caps, strictTargets, targets, wantedDoctorsByDay) ==
    LET forcedWantDoctorId ==
            forcedWantDoctorForDay(day, wantedDoctorsByDay, st.counts, targets)
        forced == lockedDoctor(day)
        nextCount == CountOf(st.counts, doctor.id) + 1
        weekendKey == weekendBlockKey(day)
    IN /\ ~(forcedWantDoctorId # NoDoctor /\ forcedWantDoctorId # doctor.id)
       /\ ~(forced # NoDoctor /\ forced # doctor.id)
       /\ ~(day = 1 /\ hasCrossMonthRestBlock(doctor.id, input.lastDoctorId))
       /\ ~(isLeadershipDoctor(doctor) /\ isWeekendServiceDay(day))
       /\ ~(isTuesdayOrThursday(day) /\ ~isCertifiedDoctor(doctor))
       /\ ~(nextCount > caps[doctor.id])
       /\ ~(strictTargets /\ nextCount > targets[doctor.id])
       /\ AssignedAt(st, day - 1) # doctor.id
       /\ AssignedAt(st, day + 1) # doctor.id
       /\ ~(/\ weekendKey # <<>>
            /\ ~(BlockCount(st, doctor.id, weekendKey[1]) > 0)
            /\ st.weekendBlockTotals[doctor.id] >= MaxWeekendBlocks)

\* isHardAllowed without the lead weekend rule (lines 150-152)
isHardAllowedLeadOnWeekend(day, doctor, st, caps, strictTargets, targets, wantedDoctorsByDay) ==
    LET forcedWantDoctorId ==
            forcedWantDoctorForDay(day, wantedDoctorsByDay, st.counts, targets)
        forced == lockedDoctor(day)
        nextCount == CountOf(st.counts, doctor.id) + 1
        weekendKey == weekendBlockKey(day)
    IN /\ ~(forcedWantDoctorId # NoDoctor /\ forcedWantDoctorId # doctor.id)
       /\ ~(forced # NoDoctor /\ forced # doctor.id)
       /\ preferenceAt(doctor.id, day) # 1
       /\ ~(day = 1 /\ hasCrossMonthRestBlock(doctor.id, input.lastDoctorId))
       /\ ~(isTuesdayOrThursday(day) /\ ~isCertifiedDoctor(doctor))
       /\ ~(nextCount > caps[doctor.id])
       /\ ~(strictTargets /\ nextCount > targets[doctor.id])
       /\ AssignedAt(st, day - 1) # doctor.id
       /\ AssignedAt(st, day + 1) # doctor.id
       /\ ~(/\ weekendKey # <<>>
            /\ ~(BlockCount(st, doctor.id, weekendKey[1]) > 0)
            /\ st.weekendBlockTotals[doctor.id] >= MaxWeekendBlocks)

\* isHardAllowed looking only at the following day, not at the preceding one
\* (lines 166-168 missing)
isHardAllowedNoRestAfter(day, doctor, st, caps, strictTargets, targets, wantedDoctorsByDay) ==
    LET forcedWantDoctorId ==
            forcedWantDoctorForDay(day, wantedDoctorsByDay, st.counts, targets)
        forced == lockedDoctor(day)
        nextCount == CountOf(st.counts, doctor.id) + 1
        weekendKey == weekendBlockKey(day)
    IN /\ ~(forcedWantDoctorId # NoDoctor /\ forcedWantDoctorId # doctor.id)
       /\ ~(forced # NoDoctor /\ forced # doctor.id)
       /\ preferenceAt(doctor.id, day) # 1
       /\ ~(day = 1 /\ hasCrossMonthRestBlock(doctor.id, input.lastDoctorId))
       /\ ~(isLeadershipDoctor(doctor) /\ isWeekendServiceDay(day))
       /\ ~(isTuesdayOrThursday(day) /\ ~isCertifiedDoctor(doctor))
       /\ ~(nextCount > caps[doctor.id])
       /\ ~(strictTargets /\ nextCount > targets[doctor.id])
       /\ AssignedAt(st, day + 1) # doctor.id
       /\ ~(/\ weekendKey # <<>>
            /\ ~(BlockCount(st, doctor.id, weekendKey[1]) > 0)
            /\ st.weekendBlockTotals[doctor.id] >= MaxWeekendBlocks)

\* isHardAllowed with the weekend-block limit off by one (>= 2 written as > 2,
\* line 177)
isHardAllowedThreeBlocks(day, doctor, st, caps, strictTargets, targets, wantedDoctorsByDay) ==
    LET forcedWantDoctorId ==
            forcedWantDoctorForDay(day, wantedDoctorsByDay, st.counts, targets)
        forced == lockedDoctor(day)
        nextCount == CountOf(st.counts, doctor.id) + 1
        weekendKey == weekendBlockKey(day)
    IN /\ ~(forcedWantDoctorId # NoDoctor /\ forcedWantDoctorId # doctor.id)
       /\ ~(forced # NoDoctor /\ forced # doctor.id)
       /\ preferenceAt(doctor.id, day) # 1
       /\ ~(day = 1 /\ hasCrossMonthRestBlock(doctor.id, input.lastDoctorId))
       /\ ~(isLeadershipDoctor(doctor) /\ isWeekendServiceDay(day))
       /\ ~(isTuesdayOrThursday(day) /\ ~isCertifiedDoctor(doctor))
       /\ ~(nextCount > caps[doctor.id])
       /\ ~(strictTargets /\ nextCount > targets[doctor.id])
       /\ AssignedAt(st, day - 1) # doctor.id
       /\ AssignedAt(st, day + 1) # doctor.id
       /\ ~(/\ weekendKey # <<>>
            /\ ~(BlockCount(st, doctor.id, weekendKey[1]) > 0)
            /\ st.weekendBlockTotals[doctor.id] > MaxWeekendBlocks)

\* isHardAllowed without the lock rule (lines 136-139)
isHardAllowedIgnoringLock(day, doctor, st, caps, strictTargets, targets, wantedDoctorsByDay) ==
    LET forcedWantDoctorId ==
            forcedWantDoctorForDay(day, wantedDoctorsByDay, st.counts, targets)
        forced == lockedDoctor(day)
        nextCount == CountOf(st.counts, doctor.id) + 1
        weekendKey == weekendBlockKey(day)
    IN /\ ~(forcedWantDoctorId # NoDoctor /\ forcedWantDoctorId # doctor.id)
       /\ preferenceAt(doctor.id, day) # 1
       /\ ~(day = 1 /\ hasCrossMonthRestBlock(doctor.id, input.lastDoctorId))
       /\ ~(isLeadershipDoctor(doctor) /\ isWeekendServiceDay(day))
       /\ ~(isTuesdayOrThursday(day) /\ ~isCertifiedDoctor(doctor))
       /\ ~(nextCount > caps[doctor.id])
       /\ ~(strictTargets /\ nextCount > targets[doctor.id])
       /\ AssignedAt(st, day - 1) # doctor.id
       /\ AssignedAt(st, day + 1) # doctor.id
       /\ ~(/\ weekendKey # <<>>
            /\ ~(BlockCount(st, doctor.id, weekendKey[1]) > 0)
            /\ st.weekendBlockTotals[doctor.id] >= MaxWeekendBlocks)

\* isHardAllowed without the forced-want rule (lines 131-134)
isHardAllowedIgnoringForcedWant(day, doctor, st, caps, strictTargets, targets, wantedDoctorsByDay) ==
    LET forced == lockedDoctor(day)
        nextCount == CountOf(st.counts, doctor.id) + 1
        weekendKey == weekendBlockKey(day)
    IN /\ ~(forced # NoDoctor /\ forced # doctor.id)
       /\ preferenceAt(doctor.id, day) # 1
       /\ ~(day = 1 /\ hasCrossMonthRestBlock(doctor.id, input.lastDoctorId))
       /\ ~(isLeadershipDoctor(doctor) /\ isWeekendServiceDay(day))
       /\ ~(isTuesdayOrThursday(day) /\ ~isCertifiedDoctor(doctor))
       /\ ~(nextCount > caps[doctor.id])
       /\ ~(strictTargets /\ nextCount > targets[doctor.id])
       /\ AssignedAt(st, day - 1) # doctor.id
       /\ AssignedAt(st, day + 1) # doctor.id
       /\ ~(/\ weekendKey # <<>>
            /\ ~(BlockCount(st, doctor.id, weekendKey[1]) > 0)
            /\ st.weekendBlockTotals[doctor.id] >= MaxWeekendBlocks)

\* isHardAllowed without the strict target rule (lines 162-164)
isHardAllowedIgnoringTarget(day, doctor, st, caps, strictTargets, targets, wantedDoctorsByDay) ==
    LET forcedWantDoctorId ==
            forcedWantDoctorForDay(day, wantedDoctorsByDay, st.counts, targets)
        forced == lockedDoctor(day)
        nextCount == CountOf(st.counts, doctor.id) + 1
        weekendKey == weekendBlockKey(day)
    IN /\ ~(forcedWantDoctorId # NoDoctor /\ forcedWantDoctorId # doctor.id)
       /\ ~(forced # NoDoctor /\ forced # doctor.id)
       /\ preferenceAt(doctor.id, day) # 1
       /\ ~(day = 1 /\ hasCrossMonthRestBlock(doctor.id, input.lastDoctorId))
       /\ ~(isLeadershipDoctor(doctor) /\ isWeekendServiceDay(day))
       /\ ~(isTuesdayOrThursday(day) /\ ~isCertifiedDoctor(doctor))
       /\ ~(nextCount > caps[doctor.id])
       /\ AssignedAt(st, day - 1) # doctor.id
       /\ AssignedAt(st, day + 1) # doctor.id
       /\ ~(/\ weekendKey # <<>>
            /\ ~(BlockCount(st, doctor.id, weekendKey[1]) > 0)
            /\ st.weekendBlockTotals[doctor.id] >= MaxWeekendBlocks)

isHardAllowed(day, doctor, st, caps, strictTargets, targets, wantedDoctorsByDay) ==
    LET forcedWantDoctorId ==
            forcedWantDoctorForDay(day, wantedDoctorsByDay, st.counts, targets)
        forced == lockedDoctor(day)
        nextCount == CountOf(st.counts, doctor.id) + 1
        weekendKey == weekendBlockKey(day)
    IN /\ ~(forcedWantDoctorId # NoDoctor /\ forcedWantDoctorId # doctor.id)
       /\ ~(forced # NoDoctor /\ forced # doctor.id)
       /\ preferenceAt(doctor.id, day) # 1
       /\ ~(day = 1 /\ hasCrossMonthRestBlock(doctor.id, input.lastDoctorId))
       /\ ~(isLeadershipDoctor(doctor) /\ isWeekendServiceDay(day))
       /\ ~(isTuesdayOrThursday(day) /\ ~isCertifiedDoctor(doctor))
       /\ ~(nextCount > caps[doctor.id])
       /\ ~(strictTargets /\ nextCount > targets[doctor.id])
       /\ AssignedAt(st, day - 1) # doctor.id
       /\ AssignedAt(st, day + 1) # doctor.id
       /\ ~(/\ weekendKey # <<>>
            /\ ~(BlockCount(st, doctor.id, weekendKey[1]) > 0)
            /\ st.weekendBlockTotals[doctor.id] >= MaxWeekendBlocks)

\* isBaseHardAllowedForDiscussion without the rest rule (lines 214-219)
isBaseHardAllowedForDiscussionNoRest(day, doctor, st) ==
    LET forced == lockedDoctor(day)
        weekendKey == weekendBlockKey(day)
    IN /\ ~(forced # NoDoctor /\ forced # doctor.id)
       /\ preferenceAt(doctor.id, day) # 1
       /\ ~(day = 1 /\ hasCrossMonthRestBlock(doctor.id, input.lastDoctorId))
       /\ ~(isLeadershipDoctor(doctor) /\ isWeekendServiceDay(day))
       /\ ~(isTuesdayOrThursday(day) /\ ~isCertifiedDoctor(doctor))
       /\ ~(/\ weekendKey # <<>>
            /\ ~(BlockCount(st, doctor.id, weekendKey[1]) > 0)
            /\ st.weekendBlockTotals[doctor.id] >= MaxWeekendBlocks)

isBaseHardAllowedForDiscussion(day, doctor, st) ==
    LET forced == lockedDoctor(day)
        weekendKey == weekendBlockKey(day)
    IN /\ ~(forced # NoDoctor /\ forced # doctor.id)
       /\ preferenceAt(doctor.id, day) # 1
       /\ ~(day = 1 /\ hasCrossMonthRestBlock(doctor.id, input.lastDoctorId))
       /\ ~(isLeadershipDoctor(doctor) /\ isWeekendServiceDay(day))
       /\ ~(isTuesdayOrThursday(day) /\ ~isCertifiedDoctor(doctor))
       /\ AssignedAt(st, day - 1) # doctor.id
       /\ AssignedAt(st, day + 1) # doctor.id
       /\ ~(/\ weekendKey # <<>>
            /\ ~(BlockCount(st, doctor.id, weekendKey[1]) > 0)
            /\ st.weekendBlockTotals[doctor.id] >= MaxWeekendBlocks)

Abs(n) == IF n < 0 THEN -n ELSE n

scoreCandidate(day, doctor, st, targets) ==
    LET pref == preferenceAt(doctor.id, day)
        nextCount == CountOf(st.counts, doctor.id) + 1
        nextWeekday == (weekday(day) + 1) % 7
    IN (IF pref = 3 THEN -250 ELSE 0)
       + (IF pref = 2 THEN 50 ELSE 0)
       + (IF AssignedAt(st, day - 2) = doctor.id THEN 10 ELSE 0)
       + (IF AssignedAt(st, day + 2) = doctor.id THEN 10 ELSE 0)
       + Abs(nextCount - targets[doctor.id]) * 12
       + (IF nextWeekday \in AMBULANCE_WEEKDAYS_BY_DOCTOR_ID(doctor.id) THEN 18 ELSE 0)

-----------------------------------------------------------------------------
(* Lock validator *)

Issue(kind, day, doctorId) == [kind |-> kind, day |-> day, doctor |-> doctorId]

\* LockDayIssues without the check of the preceding locked day (lines 321-323)
LockDayIssuesNoConsecutive(day, docId, lockedCountsBeforeDay, targets, wantedDoctorsByDay) ==
    LET doctor == DoctorById(docId)
        forcedWantDoctorId ==
            forcedWantDoctorForDay(day, wantedDoctorsByDay, lockedCountsBeforeDay, targets)
    IN (IF forcedWantDoctorId # NoDoctor /\ forcedWantDoctorId # docId
           THEN <<Issue("want", day, docId)>> ELSE <<>>)
       \o (IF preferenceAt(docId, day) = 1
           THEN <<Issue("cannot", day, docId)>> ELSE <<>>)
       \o (IF isLeadershipDoctor(doctor) /\ isWeekendServiceDay(day)
           THEN <<Issue("leadWeekend", day, docId)>> ELSE <<>>)
       \o (IF isTuesdayOrThursday(day) /\ ~isCertifiedDoctor(doctor)
           THEN <<Issue("notCertified", day, docId)>> ELSE <<>>)
       \o (IF day = 1 /\ hasCrossMonthRestBlock(docId, input.lastDoctorId)
           THEN <<Issue("boundary", day, docId)>> ELSE <<>>)

\* LockDayIssues without the "cannot" check (lines 309-311)
LockDayIssuesNoCannot(day, docId, lockedCountsBeforeDay, targets, wantedDoctorsByDay) ==
    LET doctor == DoctorById(docId)
        forcedWantDoctorId ==
            forcedWantDoctorForDay(day, wantedDoctorsByDay, lockedCountsBeforeDay, targets)
    IN (IF forcedWantDoctorId # NoDoctor /\ forcedWantDoctorId # docId
           THEN <<Issue("want", day, docId)>> ELSE <<>>)
       \o (IF isLeadershipDoctor(doctor) /\ isWeekendServiceDay(day)
           THEN <<Issue("leadWeekend", day, docId)>> ELSE <<>>)
       \o (IF isTuesdayOrThursday(day) /\ ~isCertifiedDoctor(doctor)
           THEN <<Issue("notCertified", day, docId)>> ELSE <<>>)
       \o (IF day = 1 /\ hasCrossMonthRestBlock(docId, input.lastDoctorId)
           THEN <<Issue("boundary", day, docId)>> ELSE <<>>)
       \o (IF day > 1 /\ lockedDoctor(day - 1) = docId
           THEN <<Issue("consecutive", day, docId)>> ELSE <<>>)

\* the issues the first loop of validateLocks pushes for one locked day whose
\* doctor exists, in the order of the code
LockDayIssues(day, docId, lockedCountsBeforeDay, targets, wantedDoctorsByDay) ==
    LET doctor == DoctorById(docId)
        forcedWantDoctorId ==
            forcedWantDoctorForDay(day, wantedDoctorsByDay, lockedCountsBeforeDay, targets)
    IN (IF forcedWantDoctorId # NoDoctor /\ forcedWantDoctorId # docId
           THEN <<Issue("want", day, docId)>> ELSE <<>>)
       \o (IF preferenceAt(docId, day) = 1
           THEN <<Issue("cannot", day, docId)>> ELSE <<>>)
       \o (IF isLeadershipDoctor(doctor) /\ isWeekendServiceDay(day)
           THEN <<Issue("leadWeekend", day, docId)>> ELSE <<>>)
       \o (IF isTuesdayOrThursday(day) /\ ~isCertifiedDoctor(doctor)
           THEN <<Issue("notCertified", day, docId)>> ELSE <<>>)
       \o (IF day = 1 /\ hasCrossMonthRestBlock(docId, input.lastDoctorId)
           THEN <<Issue("boundary", day, docId)>> ELSE <<>>)
       \o (IF day > 1 /\ lockedDoctor(day - 1) = docId
           THEN <<Issue("consecutive", day, docId)>> ELSE <<>>)

\* the first loop of validateLocks returning at the first locked day that has
\* an issue
RECURSIVE LockWalkFailFast(_, _, _, _)
LockWalkFailFast(day, lockedCountsBeforeDay, targets, wantedDoctorsByDay) ==
    IF day > daysInMonth THEN <<>>
    ELSE LET docId == lockedDoctor(day)
         IN IF docId = NoDoctor
            THEN LockWalkFailFast(day + 1, lockedCountsBeforeDay, targets, wantedDoctorsByDay)
            ELSE IF docId \notin DoctorIds
            THEN <<Issue("missing", day, docId)>>
            ELSE LET issues == LockDayIssues(day, docId, lockedCountsBeforeDay, targets,
                                             wantedDoctorsByDay)
                 IN IF Len(issues) > 0 THEN issues
                    ELSE LockWalkFailFast(day + 1,
                                          (docId :> (CountOf(lockedCountsBeforeDay, docId) + 1))
                                              @@ lockedCountsBeforeDay,
                                          targets, wantedDoctorsByDay)

RECURSIVE LockWalk(_, _, _, _)
LockWalk(day, lockedCountsBeforeDay, targets, wantedDoctorsByDay) ==
    IF day > daysInMonth THEN <<>>
    ELSE LET docId == lockedDoctor(day)
         IN IF docId = NoDoctor
            THEN LockWalk(day + 1, lockedCountsBeforeDay, targets, wantedDoctorsByDay)
            ELSE IF docId \notin DoctorIds
            THEN <<Issue("missing", day, docId)>>
                 \o LockWalk(day + 1, lockedCountsBeforeDay, targets, wantedDoctorsByDay)
            ELSE LockDayIssues(day, docId, lockedCountsBeforeDay, targets,
                               wantedDoctorsByDay)
                 \o LockWalk(day + 1,
                             (docId :> (CountOf(lockedCountsBeforeDay, docId) + 1))
                                 @@ lockedCountsBeforeDay,
                             targets, wantedDoctorsByDay)

LockedDays(docId) == {day \in 1..daysInMonth : lockedDoctor(day) = docId}

LockedWeekendBlocks(docId) ==
    {weekendBlockKey(day)[1] : day \in {d \in LockedDays(docId) : weekendBlockKey(d) # <<>>}}

RECURSIVE LockTotals(_, _)
LockTotals(i, caps) ==
    IF i > Len(input.doctors) THEN <<>>
    ELSE LET doctor == input.doctors[i]
         IN (IF Cardinality(LockedDays(doctor.id)) > caps[doctor.id]
                THEN <<Issue("cap", 0, doctor.id)>> ELSE <<>>)
            \o (IF Cardinality(LockedWeekendBlocks(doctor.id)) > MaxWeekendBlocks
                THEN <<Issue("weekendBlocks", 0, doctor.id)>> ELSE <<>>)
            \o LockTotals(i + 1, caps)

validateLocks(caps, targets, wantedDoctorsByDay) ==
    LockWalk(1, <<>>, targets, wantedDoctorsByDay) \o LockTotals(1, caps)

strictTargetFeasible(st, targets, totalDays) ==
    LET assigned == Cardinality(DOMAIN st.assignments)
        remainingDays == totalDays - assigned
        RECURSIVE Need(_)
        Need(i) == IF i > Len(input.doctors) THEN 0
                   ELSE (targets[input.doctors[i].id]
                           - CountOf(st.counts, input.doctors[i].id)) + Need(i + 1)
    IN /\ \A id \in DoctorIds : ~(CountOf(st.counts, id) > targets[id])
       /\ Need(1) <= remainingDays

-----------------------------------------------------------------------------
(* Seeded generator of makeRng.  A 32-bit word is the pair <<high 16 bits,  *)
(* low 16 bits>>.                                                          *)

RECURSIVE XorNat(_, _)
XorNat(a, b) ==
    IF a = 0 THEN b
    ELSE IF b = 0 THEN a
    ELSE (((a % 2) + (b % 2)) % 2) + 2 * XorNat(a \div 2, b \div 2)

Xor32(x, y) == <<XorNat(x[1], y[1]), XorNat(x[2], y[2])>>

RECURSIVE Pow2(_)
Pow2(k) == IF k = 0 THEN 1 ELSE 2 * Pow2(k - 1)

\* x << k for 0 < k < 16
Shl32(x, k) ==
    <<((x[1] * Pow2(k)) + ((x[2] * Pow2(k)) \div 65536)) % 65536, (x[2] * Pow2(k)) % 65536>>

\* x >>> k for 16 <= k < 32
Shr32(x, k) == <<0, x[1] \div Pow2(k - 16)>>

\* Math.imul(x, 16777619), 16777619 = 256 * 65536 + 403
Imul16777619(x) ==
    LET t == x[2] * 403
    IN <<((x[1] * 403) + (x[2] * 256) + (t \div 65536)) % 65536, t % 65536>>

Less32(x, y) == x[1] < y[1] \/ (x[1] = y[1] /\ x[2] < y[2])

RECURSIVE SeedHash(_, _, _)
SeedHash(seed, i, h) ==
    IF i > Len(seed) THEN h
    ELSE SeedHash(seed, i + 1, Imul16777619(Xor32(h, <<0, seed[i]>>)))

Seeded == input.seed # <<>>

\* the initial s of the seeded generator; 2166136261 = 33052 * 65536 + 40389
makeRng(seed) == IF seed = <<>> THEN <<0, 0>> ELSE SeedHash(seed, 1, <<33052, 40389>>)

\* one call of the seeded rng(): the new s, which is also the value returned
\* (as s / 4294967296)
RngNext(s) ==
    LET s1 == Xor32(s, Shl32(s, 13))
        s2 == Xor32(s1, Shr32(s1, 17))
    IN Xor32(s2, Shl32(s2, 5))

-----------------------------------------------------------------------------
(* Candidate ordering *)

Sign(n) == IF n < 0 THEN -1 ELSE IF n > 0 THEN 1 ELSE 0

\* the part of a sort comparator that does not depend on the jitter:
\* negative / positive when decided, 0 when the two candidates have the same
\* integer score and the jitter decides.  mode "solver" is the comparator of
\* backtrack(), mode "proposal" the one of buildPartialProposal.
CompareBase(mode, a, b, day, st, targets) ==
    LET aPref == preferenceAt(a.id, day)
        bPref == preferenceAt(b.id, day)
    IN IF mode = "solver" /\ aPref = 3 /\ bPref = 3 THEN Sign(a.order - b.order)
       ELSE IF mode = "solver" /\ (aPref = 3 \/ bPref = 3) THEN Sign(bPref - aPref)
       ELSE Sign(scoreCandidate(day, a, st, targets) - scoreCandidate(day, b, st, targets))

\* whether the comparator draws from rng for this pair
CompareDraws(mode, a, b, day) ==
    ~(mode = "solver" /\ (preferenceAt(a.id, day) = 3 \/ preferenceAt(b.id, day) = 3))

\* the comparator under the seeded generator: [ord, rng]
CompareSeeded(mode, a, b, day, st, targets, s) ==
    IF ~CompareDraws(mode, a, b, day)
    THEN [ord |-> CompareBase(mode, a, b, day, st, targets), rng |-> s]
    ELSE LET r1 == RngNext(s)
             r2 == RngNext(r1)
             base == CompareBase(mode, a, b, day, st, targets)
         IN [ord |-> IF base # 0 THEN base
                     ELSE IF Less32(r1, r2) THEN -1
                     ELSE IF Less32(r2, r1) THEN 1
                     ELSE Sign(a.order - b.order),
             rng |-> r2]

\* Array.prototype.sort for arrays shorter than 64 elements: the initial run
\* is counted (and reversed when strictly descending), the rest is inserted
\* by binary insertion.  c is a record [mode, day, st, targets].
RECURSIVE RunScan(_, _, _, _, _)
RunScan(arr, idx, isDescending, s, c) ==
    IF idx > Len(arr) THEN [run |-> Len(arr), rng |-> s]
    ELSE LET r == CompareSeeded(c.mode, arr[idx], arr[idx - 1], c.day, c.st, c.targets, s)
         IN IF (isDescending /\ r.ord >= 0) \/ (~isDescending /\ r.ord < 0)
            THEN [run |-> idx - 1, rng |-> r.rng]
            ELSE RunScan(arr, idx + 1, isDescending, r.rng, c)

ReverseRange(arr, n) ==
    [i \in 1..Len(arr) |-> IF i <= n THEN arr[n + 1 - i] ELSE arr[i]]

CountAndMakeRun(arr, s, c) ==
    LET r == CompareSeeded(c.mode, arr[2], arr[1], c.day, c.st, c.targets, s)
        isDescending == r.ord < 0
        scan == RunScan(arr, 3, isDescending, r.rng, c)
    IN [arr |-> IF isDescending THEN ReverseRange(arr, scan.run) ELSE arr,
        run |-> scan.run, rng |-> scan.rng]

RECURSIVE BinarySearch(_, _, _, _, _, _)
BinarySearch(arr, pivot, left, right, s, c) ==
    IF ~(left < right) THEN [pos |-> left, rng |-> s]
    ELSE LET mid == left + ((right - left) \div 2)
             r == CompareSeeded(c.mode, pivot, arr[mid], c.day, c.st, c.targets, s)
         IN IF r.ord < 0 THEN BinarySearch(arr, pivot, left, mid, r.rng, c)
            ELSE BinarySearch(arr, pivot, mid + 1, right, r.rng, c)

RECURSIVE BinaryInsertionSort(_, _, _, _)
BinaryInsertionSort(arr, start, s, c) ==
    IF start > Len(arr) THEN [arr |-> arr, rng |-> s]
    ELSE LET pivot == arr[start]
             f == BinarySearch(arr, pivot, 1, start, s, c)
             moved == [i \in 1..Len(arr) |->
                          IF i < f.pos \/ i > start THEN arr[i]
                          ELSE IF i = f.pos THEN pivot
                          ELSE arr[i - 1]]
         IN BinaryInsertionSort(moved, start + 1, f.rng, c)

SortSeeded(arr, s, c) ==
    IF Len(arr) < 2 THEN [arr |-> arr, rng |-> s]
    ELSE LET run == CountAndMakeRun(arr, s, c)
         IN BinaryInsertionSort(run.arr, run.run + 1, run.rng, c)

Arrangements(arr) ==
    {p \in [1..Len(arr) -> Range(arr)] : \A i, j \in 1..Len(arr) : i # j => p[i] # p[j]}

\* Without a seed rng is Math.random: each comparison of two candidates of
\* equal integer score may come out either way, so the sorted array is any
\* arrangement that keeps the pairs the comparator decides in order.
SortUnseeded(arr, c) ==
    {p \in Arrangements(arr) :
        \A i, j \in 1..Len(arr) :
            i < j => CompareBase(c.mode, p[i], p[j], c.day, c.st, c.targets) <= 0}

\* the outcomes of arr.sort(comparator): a set of records [arr, rng]
SortOutcomes(arr, s, c) ==
    IF Seeded THEN {SortSeeded(arr, s, c)}
    ELSE {[arr |-> p, rng |-> s] : p \in SortUnseeded(arr, c)}

-----------------------------------------------------------------------------
(* generateSchedule: derived tables, results *)

Caps == initialCaps

Targets == sanitizeTargets

Wanted == computeWantedDoctorsByDay

NoAttempt == [done |-> FALSE, ok |-> FALSE, reason |-> "", assignments |-> <<>>]

AttemptOk(assignments) ==
    [done |-> TRUE, ok |-> TRUE, reason |-> "", assignments |-> assignments]

AttemptFailed(reason) ==
    [done |-> TRUE, ok |-> FALSE, reason |-> reason, assignments |-> <<>>]

EmptyProposal == [assignments |-> <<>>, unassignedDays |-> <<>>]

NoResult ==
    [done |-> FALSE, ok |-> FALSE, assignments |-> <<>>, conflicts |-> <<>>,
     hasProposal |-> FALSE, partialProposal |-> EmptyProposal]

Success(assignments) ==
    [done |-> TRUE, ok |-> TRUE, assignments |-> assignments, conflicts |-> <<>>,
     hasProposal |-> FALSE, partialProposal |-> EmptyProposal]

Failure(conflicts, hasProposal, partialProposal) ==
    [done |-> TRUE, ok |-> FALSE, assignments |-> <<>>, conflicts |-> conflicts,
     hasProposal |-> hasProposal, partialProposal |-> partialProposal]

StrictTargets == pc = "strict"

\* input.doctors.filter((doctor) => isHardAllowed(day, doctor, ...))
HardCandidates(day, st, strictTargets) ==
    SelectSeq(input.doctors,
              LAMBDA doctor : isHardAllowed(day, doctor, st, Caps, strictTargets,
                                            Targets, Wanted))

UnassignedDays(st) == {day \in 1..daysInMonth : AssignedAt(st, day) = NoDoctor}

\* the first loop of backtrack(): FALSE when some unassigned day has no candidate
EveryDayHasCandidate(st, strictTargets) ==
    \A day \in UnassignedDays(st) : Len(HardCandidates(day, st, strictTargets)) > 0

\* the day loop of backtrack() from day on, with the targetDay found so far
\* (-1 when none) and the number of its candidates
RECURSIVE DayScan(_, _, _, _, _)
DayScan(day, targetDay, targetCount, st, strictTargets) ==
    IF day > daysInMonth THEN targetDay
    ELSE IF AssignedAt(st, day) # NoDoctor
    THEN DayScan(day + 1, targetDay, targetCount, st, strictTargets)
    ELSE LET count == Len(HardCandidates(day, st, strictTargets))
         IN IF targetDay = -1 \/ count < targetCount
            THEN DayScan(day + 1, day, count, st, strictTargets)
            ELSE DayScan(day + 1, targetDay, targetCount, st, strictTargets)

\* backtrack() branching on the first unassigned day whatever its candidates
TargetDayFirstUnassigned(st, strictTargets) ==
    CHOOSE day \in UnassignedDays(st) : \A other \in UnassignedDays(st) : day <= other

\* the day backtrack() branches on
TargetDay(st, strictTargets) == DayScan(1, -1, 0, st, strictTargets)

\* the check made after applyAssignment in the candidate loop
ForwardOk(st, strictTargets) ==
    /\ EveryDayHasCandidate(st, strictTargets)
    /\ strictTargets => strictTargetFeasible(st, Targets, daysInMonth)

TerminalOk(st, strictTargets) ==
    \/ ~strictTargets
    \/ \A i \in 1..Len(input.doctors) :
           CountOf(st.counts, input.doctors[i].id) = CountOf(Targets, input.doctors[i].id)

RECURSIVE SumTargets(_)
SumTargets(i) ==
    IF i > Len(input.doctors) THEN 0
    ELSE CountOf(Targets, input.doctors[i].id) + SumTargets(i + 1)

Top == stack[Len(stack)]

Pop == SubSeq(stack, 1, Len(stack) - 1)

-----------------------------------------------------------------------------
(* Actions *)

\* generateSchedule, lines 621-633: the lock validator and the early return
ValidateLocks ==
    /\ pc = "validate"
    /\ LET lockIssues == validateLocks(Caps, Targets, Wanted)
       IN IF Len(lockIssues) > 0
          THEN /\ result' = Failure(lockIssues, FALSE, EmptyProposal)
               /\ pc' = "done"
               /\ sp' = "idle"
          ELSE /\ pc' = "strict"
               /\ sp' = "start"
               /\ UNCHANGED result
    /\ UNCHANGED <<input, state, stack, retVal, rng, strictAttempt, fallbackAttempt,
                   proposal, runNo, firstResult>>

\* variant of SolveStart without the sum pre-check of the strict pass
SolveStartNoSumCheck ==
    /\ pc \in {"strict", "relaxed"}
    /\ sp = "start"
    /\ state' = createInitialState
    /\ stack' = <<>>
    /\ sp' = "call"
    /\ UNCHANGED <<pc, strictAttempt>>
    /\ UNCHANGED <<input, retVal, rng, fallbackAttempt, proposal, result, runNo,
                   firstResult>>

\* solveWithCaps, lines 411-422: the sum pre-check of the strict pass and the
\* fresh working state
SolveStart ==
    /\ pc \in {"strict", "relaxed"}
    /\ sp = "start"
    /\ IF StrictTargets /\ SumTargets(1) # daysInMonth
       THEN /\ strictAttempt' = AttemptFailed("sum")
            /\ pc' = "relaxed"
            /\ UNCHANGED <<sp, state, stack>>
       ELSE /\ state' = createInitialState
            /\ stack' = <<>>
            /\ sp' = "call"
            /\ UNCHANGED <<pc, strictAttempt>>
    /\ UNCHANGED <<input, retVal, rng, fallbackAttempt, proposal, result, runNo,
                   firstResult>>

\* backtrack(), lines 424-467: terminal test, candidate scan, choice of the
\* day and sort of its candidates
BacktrackEnter ==
    /\ sp = "call"
    /\ IF Cardinality(DOMAIN state.assignments) = daysInMonth
       THEN /\ retVal' = TerminalOk(state, StrictTargets)
            /\ sp' = "ret"
            /\ UNCHANGED <<stack, rng>>
       ELSE IF ~EveryDayHasCandidate(state, StrictTargets)
       THEN /\ retVal' = FALSE
            /\ sp' = "ret"
            /\ UNCHANGED <<stack, rng>>
       ELSE LET targetDay == TargetDay(state, StrictTargets)
                targetCandidates == HardCandidates(targetDay, state, StrictTargets)
                c == [mode |-> "solver", day |-> targetDay, st |-> state,
                      targets |-> Targets]
            IN \E sorted \in SortOutcomes(targetCandidates, rng, c) :
                   /\ stack' = Append(stack, [targetDay |-> targetDay,
                                              candidates |-> sorted.arr,
                                              idx |-> 1])
                   /\ rng' = sorted.rng
                   /\ sp' = "loop"
                   /\ UNCHANGED retVal
    /\ UNCHANGED <<input, pc, state, strictAttempt, fallbackAttempt, proposal,
                   result, runNo, firstResult>>

\* backtrack(), lines 469-471: the next candidate is applied
TryCandidate ==
    /\ sp = "loop"
    /\ Top.idx <= Len(Top.candidates)
    /\ state' = applyAssignment(state, Top.targetDay, Top.candidates[Top.idx].id)
    /\ sp' = "applied"
    /\ UNCHANGED <<input, pc, stack, retVal, rng, strictAttempt, fallbackAttempt,
                   proposal, result, runNo, firstResult>>

\* backtrack(), line 509: the candidates are exhausted
CandidatesExhausted ==
    /\ sp = "loop"
    /\ Top.idx > Len(Top.candidates)
    /\ stack' = Pop
    /\ retVal' = FALSE
    /\ sp' = "ret"
    /\ UNCHANGED <<input, pc, state, rng, strictAttempt, fallbackAttempt, proposal,
                   result, runNo, firstResult>>

\* variant of ForwardCheck that looks only at the first unassigned day
ForwardCheckFirstDayOnly ==
    /\ sp = "applied"
    /\ LET first == CHOOSE day \in UnassignedDays(state) :
                        \A other \in UnassignedDays(state) : day <= other
           ok == /\ UnassignedDays(state) # {} =>
                        Len(HardCandidates(first, state, StrictTargets)) > 0
                 /\ StrictTargets => strictTargetFeasible(state, Targets, daysInMonth)
       IN sp' = IF ok THEN "call" ELSE "undo"
    /\ UNCHANGED <<input, pc, state, stack, retVal, rng, strictAttempt,
                   fallbackAttempt, proposal, result, runNo, firstResult>>

\* backtrack(), lines 473-491: the forward check after an assignment, and the
\* recursive call when it passes
ForwardCheck ==
    /\ sp = "applied"
    /\ sp' = IF ForwardOk(state, StrictTargets) THEN "call" ELSE "undo"
    /\ UNCHANGED <<input, pc, state, stack, retVal, rng, strictAttempt,
                   fallbackAttempt, proposal, result, runNo, firstResult>>

\* backtrack(), lines 491-493: a recursive call has returned
BacktrackReturn ==
    /\ sp = "ret"
    /\ stack # <<>>
    /\ IF retVal
       THEN /\ stack' = Pop
            /\ sp' = "ret"
       ELSE /\ sp' = "undo"
            /\ UNCHANGED stack
    /\ UNCHANGED <<input, pc, state, retVal, rng, strictAttempt, fallbackAttempt,
                   proposal, result, runNo, firstResult>>

\* backtrack(), lines 495-506: the assignment is undone
\* variant of UndoCandidate that takes the assignment back and leaves the loop
\* on the same candidate
UndoCandidateSameCandidate ==
    /\ sp = "undo"
    /\ state' = undoAssignment(state, Top.targetDay, Top.candidates[Top.idx].id)
    /\ stack' = stack
    /\ sp' = "loop"
    /\ UNCHANGED <<input, pc, retVal, rng, strictAttempt, fallbackAttempt, proposal,
                   result, runNo, firstResult>>

UndoCandidate ==
    /\ sp = "undo"
    /\ state' = undoAssignment(state, Top.targetDay, Top.candidates[Top.idx].id)
    /\ stack' = [stack EXCEPT ![Len(stack)].idx = @ + 1]
    /\ sp' = "loop"
    /\ UNCHANGED <<input, pc, retVal, rng, strictAttempt, fallbackAttempt, proposal,
                   result, runNo, firstResult>>

\* variant of SolveEnd that starts the proposal builder as soon as the strict
\* pass has failed
SolveEndSkipsRelaxed ==
    /\ sp = "ret"
    /\ stack = <<>>
    /\ pc \in {"strict", "relaxed"}
    /\ LET attempt == IF retVal THEN AttemptOk(state.assignments)
                      ELSE AttemptFailed("nosolution")
       IN /\ IF pc = "strict"
             THEN strictAttempt' = attempt /\ UNCHANGED fallbackAttempt
             ELSE fallbackAttempt' = attempt /\ UNCHANGED strictAttempt
          /\ IF retVal
             THEN /\ result' = Success(state.assignments)
                  /\ pc' = "done"
                  /\ sp' = "idle"
                  /\ UNCHANGED <<state, proposal>>
             ELSE /\ pc' = "proposal"
                  /\ sp' = "idle"
                  /\ state' = createInitialState
                  /\ proposal' = EmptyProposal
                  /\ UNCHANGED result
    /\ UNCHANGED <<input, stack, retVal, rng, runNo, firstResult>>

\* solveWithCaps, lines 512-516, and generateSchedule, lines 635-657: the
\* outermost backtrack() has returned
SolveEnd ==
    /\ sp = "ret"
    /\ stack = <<>>
    /\ pc \in {"strict", "relaxed"}
    /\ LET attempt == IF retVal THEN AttemptOk(state.assignments)
                      ELSE AttemptFailed("nosolution")
       IN /\ IF pc = "strict"
             THEN strictAttempt' = attempt /\ UNCHANGED fallbackAttempt
             ELSE fallbackAttempt' = attempt /\ UNCHANGED strictAttempt
          /\ IF retVal
             THEN /\ result' = Success(state.assignments)
                  /\ pc' = "done"
                  /\ sp' = "idle"
                  /\ UNCHANGED <<state, proposal>>
             ELSE IF pc = "strict"
             THEN /\ pc' = "relaxed"
                  /\ sp' = "start"
                  /\ UNCHANGED <<result, state, proposal>>
             ELSE /\ pc' = "proposal"
                  /\ sp' = "idle"
                  /\ state' = createInitialState
                  /\ proposal' = EmptyProposal
                  /\ UNCHANGED result
    /\ UNCHANGED <<input, stack, retVal, rng, runNo, firstResult>>

ProposalDayNo == Cardinality(DOMAIN proposal.assignments) + 1

\* variant of ProposalDay whose discussion-safe list is left in array order
\* (without the sort of line 542)
ProposalDayUnsortedDiscussion ==
    /\ pc = "proposal"
    /\ ProposalDayNo <= daysInMonth
    /\ LET day == ProposalDayNo
           candidates == HardCandidates(day, state, FALSE)
       IN IF Len(candidates) = 0
          THEN LET discussionCandidates ==
                       IdsOf(SelectSeq(input.doctors,
                           LAMBDA doctor : isBaseHardAllowedForDiscussion(day, doctor, state)))
               IN /\ IF Len(discussionCandidates) > 0
                     THEN /\ state' = applyAssignment(state, day, discussionCandidates[1])
                          /\ proposal' =
                                [assignments |-> (day :> discussionCandidates[1])
                                                     @@ proposal.assignments,
                                 unassignedDays |->
                                     Append(proposal.unassignedDays,
                                            [day |-> day,
                                             candidateDoctorIds |-> discussionCandidates])]
                     ELSE /\ state' = state
                          /\ proposal' =
                                [assignments |-> (day :> NoDoctor) @@ proposal.assignments,
                                 unassignedDays |->
                                     Append(proposal.unassignedDays,
                                            [day |-> day,
                                             candidateDoctorIds |-> discussionCandidates])]
                  /\ UNCHANGED rng
          ELSE LET c == [mode |-> "proposal", day |-> day, st |-> state,
                         targets |-> Targets]
               IN \E sorted \in SortOutcomes(candidates, rng, c) :
                      LET chosen == sorted.arr[1]
                      IN /\ state' = applyAssignment(state, day, chosen.id)
                         /\ proposal' = [proposal EXCEPT
                                !.assignments = (day :> chosen.id) @@ proposal.assignments]
                         /\ rng' = sorted.rng
    /\ UNCHANGED <<input, pc, sp, stack, retVal, strictAttempt, fallbackAttempt,
                   result, runNo, firstResult>>

\* buildPartialProposal, lines 534-569: one iteration of the day loop
ProposalDay ==
    /\ pc = "proposal"
    /\ ProposalDayNo <= daysInMonth
    /\ LET day == ProposalDayNo
           candidates == HardCandidates(day, state, FALSE)
       IN IF Len(candidates) = 0
          THEN LET discussionCandidates ==
                       IdsOf(SortByOrder(SelectSeq(input.doctors,
                           LAMBDA doctor : isBaseHardAllowedForDiscussion(day, doctor, state))))
               IN /\ IF Len(discussionCandidates) > 0
                     THEN /\ state' = applyAssignment(state, day, discussionCandidates[1])
                          /\ proposal' =
                                [assignments |-> (day :> discussionCandidates[1])
                                                     @@ proposal.assignments,
                                 unassignedDays |->
                                     Append(proposal.unassignedDays,
                                            [day |-> day,
                                             candidateDoctorIds |-> discussionCandidates])]
                     ELSE /\ state' = state
                          /\ proposal' =
                                [assignments |-> (day :> NoDoctor) @@ proposal.assignments,
                                 unassignedDays |->
                                     Append(proposal.unassignedDays,
                                            [day |-> day,
                                             candidateDoctorIds |-> discussionCandidates])]
                  /\ UNCHANGED rng
          ELSE LET c == [mode |-> "proposal", day |-> day, st |-> state,
                         targets |-> Targets]
               IN \E sorted \in SortOutcomes(candidates, rng, c) :
                      LET chosen == sorted.arr[1]
                      IN /\ state' = applyAssignment(state, day, chosen.id)
                         /\ proposal' = [proposal EXCEPT
                                !.assignments = (day :> chosen.id) @@ proposal.assignments]
                         /\ rng' = sorted.rng
    /\ UNCHANGED <<input, pc, sp, stack, retVal, strictAttempt, fallbackAttempt,
                   result, runNo, firstResult>>

\* variant of ProposalEnd that lists the relaxed pass's reason first
ProposalEndReasonsSwapped ==
    /\ pc = "proposal"
    /\ ProposalDayNo > daysInMonth
    /\ LET hasUnassignedDay ==
               \E day \in DOMAIN proposal.assignments : proposal.assignments[day] = NoDoctor
       IN result' = IF ~hasUnassignedDay
                    THEN Success(proposal.assignments)
                    ELSE Failure(<<Issue(fallbackAttempt.reason, 0, NoDoctor),
                                   Issue(strictAttempt.reason, 0, NoDoctor)>>,
                                 TRUE, proposal)
    /\ pc' = "done"
    /\ UNCHANGED <<input, sp, state, stack, retVal, rng, strictAttempt,
                   fallbackAttempt, proposal, runNo, firstResult>>

\* variant of ProposalEnd that reports every draft as a success
ProposalEndAlwaysSuccess ==
    /\ pc = "proposal"
    /\ ProposalDayNo > daysInMonth
    /\ result' = Success(proposal.assignments)
    /\ pc' = "done"
    /\ UNCHANGED <<input, sp, state, stack, retVal, rng, strictAttempt,
                   fallbackAttempt, proposal, runNo, firstResult>>

\* generateSchedule, lines 657-677: the proposal becomes the result
ProposalEnd ==
    /\ pc = "proposal"
    /\ ProposalDayNo > daysInMonth
    /\ LET hasUnassignedDay ==
               \E day \in DOMAIN proposal.assignments : proposal.assignments[day] = NoDoctor
       IN result' = IF ~hasUnassignedDay
                    THEN Success(proposal.assignments)
                    ELSE Failure(<<Issue(strictAttempt.reason, 0, NoDoctor),
                                   Issue(fallbackAttempt.reason, 0, NoDoctor)>>,
                                 TRUE, proposal)
    /\ pc' = "done"
    /\ UNCHANGED <<input, sp, state, stack, retVal, rng, strictAttempt,
                   fallbackAttempt, proposal, runNo, firstResult>>

\* the caller submits the same request once more
Regenerate ==
    /\ pc = "done"
    /\ runNo = 1
    /\ runNo' = 2
    /\ firstResult' = result
    /\ pc' = "validate"
    /\ sp' = "idle"
    /\ state' = createInitialState
    /\ stack' = <<>>
    /\ retVal' = FALSE
    /\ rng' = makeRng(input.seed)
    /\ strictAttempt' = NoAttempt
    /\ fallbackAttempt' = NoAttempt
    /\ proposal' = EmptyProposal
    /\ result' = NoResult
    /\ UNCHANGED input

-----------------------------------------------------------------------------
(* Requests *)

Raw(twice) == [finite |-> TRUE, twice |-> twice]

NotFinite == [finite |-> FALSE, twice |-> 0]

\* ids no doctor of a request has (a lock may still name one)
UnknownIds == {11}

\* the doctors of DEFAULT_DOCTORS a request may hold: both leads, a certified
\* and a non-certified regular doctor
PoolIds == {1, 2, 3, 6}

RECURSIVE SeqOfSet(_)
SeqOfSet(S) ==
    IF S = {} THEN <<>>
    ELSE LET m == CHOOSE m \in S : \A o \in S : m <= o
         IN <<m>> \o SeqOfSet(S \ {m})

Teams == {T \in SUBSET PoolIds : Cardinality(T) >= 1 /\ Cardinality(T) <= MaxDoctors}

\* the teams of the requests with preferences or several locks: the
\* lead-primary, a certified and a non-certified regular doctor
CoreTeams == {T \in Teams : T \subseteq {1, 3, 6}}

\* preference grids with at most k cells that are not 0, each with a value of vals
SparsePreferences(ids, days, k, vals) ==
    LET cells == ids \X (1..days)
        chosen == {C \in SUBSET cells : Cardinality(C) <= k}
    IN UNION {{[id \in ids |-> [day \in 1..days |->
                    IF <<id, day>> \in C THEN v[<<id, day>>] ELSE 0]] : v \in [C -> vals]}
              : C \in chosen}

NoLocks(days) == [day \in 1..days |-> NoDoctor]

Request(days, firstWeekday, ids, maxShifts, targetShifts, preferences, locks, lastDoctorId, seed) ==
    [days |-> days, firstWeekday |-> firstWeekday,
     doctors |-> [i \in 1..Cardinality(ids) |-> DoctorRecord(SeqOfSet(ids)[i])],
     maxShiftsByDoctor |-> maxShifts, targetShiftsByDoctor |-> targetShifts,
     preferences |-> preferences, locks |-> locks, lastDoctorId |-> lastDoctorId,
     seed |-> seed]

\* configured maxima: missing (default 5), 1.5 and -0.5
CapRaws == {NotFinite, Raw(3), Raw(-1)}

\* requested counts: missing (0), 1.5 and 2
TargetRaws == {NotFinite, Raw(3), Raw(4)}

\* first weekdays of the short months: Wednesday (a plain day, then Thursday,
\* then Friday) and Friday (weekend days only)
StartWeekdays == {3, 5}

DefaultCaps(ids) == [id \in ids |-> NotFinite]

\* short months without locks: up to MaxPrefs "want" cells, targets 0 or 1
WantRequest(r) ==
    \E days \in 1..MaxDays, wd \in StartWeekdays, ids \in CoreTeams :
        \E targets \in [ids -> {NotFinite, Raw(3)}],
           prefs \in SparsePreferences(ids, days, MaxPrefs, {3}) :
            r = Request(days, wd, ids, DefaultCaps(ids), targets, prefs,
                        NoLocks(days), NoDoctor, <<>>)

\* short months without locks or preferences: one configured maximum for all,
\* every combination of targets
CapacityRequest(r) ==
    \E days \in 1..MaxDays, wd \in StartWeekdays, ids \in Teams, cap \in CapRaws :
        \E targets \in [ids -> TargetRaws] :
            r = Request(days, wd, ids, [id \in ids |-> cap], targets,
                        [id \in ids |-> [day \in 1..days |-> 0]],
                        NoLocks(days), NoDoctor, <<>>)

\* short months without locks: up to MaxPrefs "cannot" / "avoid" cells, every
\* configured maximum 1.5 and every target 1.5
CannotRequest(r) ==
    \E days \in 1..MaxDays, wd \in StartWeekdays, ids \in CoreTeams :
        \E prefs \in SparsePreferences(ids, days, MaxPrefs, {1, 2}) :
            r = Request(days, wd, ids, [id \in ids |-> Raw(3)], [id \in ids |-> Raw(3)],
                        prefs, NoLocks(days), NoDoctor, <<>>)

\* short months with any locks and at most one "cannot" or "want" cell
LockRequest(r) ==
    \E days \in 1..MaxDays, wd \in StartWeekdays, ids \in CoreTeams :
        \E locks \in [1..days -> ids \cup {NoDoctor}],
           prefs \in SparsePreferences(ids, days, 1, {1, 3}) :
            r = Request(days, wd, ids, DefaultCaps(ids), [id \in ids |-> Raw(3)],
                        prefs, locks, NoDoctor, <<>>)

\* short months starting on any weekday, with a previous-month boundary doctor
\* and possibly a lock on day 1 (also on a doctor that does not exist, who may
\* be the boundary doctor)
BoundaryRequest(r) ==
    \E days \in 1..MaxDays, wd \in 0..6, ids \in Teams :
        \E last \in ids \cup {NoDoctor} \cup UnknownIds,
           lock1 \in ids \cup {NoDoctor} \cup UnknownIds :
            /\ last \in UnknownIds => lock1 = last
            /\ r = Request(days, wd, ids, DefaultCaps(ids), [id \in ids |-> Raw(3)],
                           [id \in ids |-> [day \in 1..days |-> 0]],
                           [day \in 1..days |-> IF day = 1 THEN lock1 ELSE NoDoctor],
                           last, <<>>)

\* the doctors of the long months: three regular doctors, two of them certified
LongTeam == {3, 4, 6}

\* the doctors a weekend day of a long month may be locked to
LongLockTeam == {3, 4}

\* months of LongDays days starting on a Sunday (three weekend blocks within
\* the first 13 days), seeded, each Friday/Saturday/Sunday free or locked
LongRequest(r) ==
    LET weekendDays == {day \in 1..LongDays : (day - 1) % 7 \in {5, 6, 0}}
    IN \E seed \in {<<97>>} :
           \E weekendLocks \in [weekendDays -> LongLockTeam \cup {NoDoctor}] :
               r = Request(LongDays, 0, LongTeam, [id \in LongTeam |-> Raw(20)],
                           [id \in LongTeam |-> NotFinite],
                           [id \in LongTeam |-> [day \in 1..LongDays |-> 0]],
                           [day \in 1..LongDays |->
                               IF day \in weekendDays THEN weekendLocks[day]
                               ELSE NoDoctor],
                           NoDoctor, seed)

\* months of LongDays days starting on a Sunday, seeded, without locks, whose
\* maxima (1.5 or 2 for all) cannot cover the month, with or without a
\* previous-month boundary doctor
LongDraftRequest(r) ==
    \E cap \in {Raw(3), Raw(4)}, last \in LongTeam \cup {NoDoctor} :
        r = Request(LongDays, 0, LongTeam, [id \in LongTeam |-> cap],
                    [id \in LongTeam |-> NotFinite],
                    [id \in LongTeam |-> [day \in 1..LongDays |-> 0]],
                    NoLocks(LongDays), last, <<97>>)

\* short months without locks in which one doctor wants one day and asks for
\* one shift: the default maxima or the maximum -0.5 for all, with or without
\* a previous-month boundary doctor
SingleWantRequest(r) ==
    \E days \in 1..MaxDays, wd \in StartWeekdays, ids \in CoreTeams :
        \E wanter \in ids, wantedDay \in 1..days, cap \in {NotFinite, Raw(-1)},
           last \in ids \cup {NoDoctor} :
            r = Request(days, wd, ids, [id \in ids |-> cap],
                        [id \in ids |-> IF id = wanter THEN Raw(3) ELSE NotFinite],
                        [id \in ids |-> [day \in 1..days |->
                            IF id = wanter /\ day = wantedDay THEN 3 ELSE 0]],
                        NoLocks(days), last, <<>>)

IsRequest(r) ==
    \/ WantRequest(r)
    \/ CapacityRequest(r)
    \/ CannotRequest(r)
    \/ LockRequest(r)
    \/ BoundaryRequest(r)
    \/ LongRequest(r)
    \/ LongDraftRequest(r)
    \/ SingleWantRequest(r)

Init ==
    /\ IsRequest(input)
    /\ pc = "validate"
    /\ sp = "idle"
    /\ state = createInitialState
    /\ stack = <<>>
    /\ retVal = FALSE
    /\ rng = makeRng(input.seed)
    /\ strictAttempt = NoAttempt
    /\ fallbackAttempt = NoAttempt
    /\ proposal = EmptyProposal
    /\ result = NoResult
    /\ runNo = 1
    /\ firstResult = NoResult

Next ==
    \/ ValidateLocks
    \/ SolveStart
    \/ BacktrackEnter
    \/ TryCandidate
    \/ CandidatesExhausted
    \/ ForwardCheck
    \/ BacktrackReturn
    \/ UndoCandidate
    \/ SolveEnd
    \/ ProposalDay
    \/ ProposalEnd

Spec == Init /\ [][Next]_vars

\* the requests with one want and those with a boundary doctor or a lock on
\* day 1
InitLive ==
    /\ \/ SingleWantRequest(input)
       \/ BoundaryRequest(input)
    /\ pc = "validate"
    /\ sp = "idle"
    /\ state = createInitialState
    /\ stack = <<>>
    /\ retVal = FALSE
    /\ rng = makeRng(input.seed)
    /\ strictAttempt = NoAttempt
    /\ fallbackAttempt = NoAttempt
    /\ proposal = EmptyProposal
    /\ result = NoResult
    /\ runNo = 1
    /\ firstResult = NoResult

\* generateSchedule runs to its return: a step that can be taken is taken
SpecLive == InitLive /\ [][Next]_vars /\ WF_vars(Next)

\* two calls on the same request
NextTwice == Next \/ Regenerate

\* short months, with and without a seed, each request submitted twice
InitTwice ==
    /\ \E days \in 1..MaxDays, wd \in StartWeekdays, ids \in Teams,
          seed \in {<<>>, <<97>>, <<98>>} :
           \E targets \in [ids -> {NotFinite, Raw(3)}] :
               input = Request(days, wd, ids, DefaultCaps(ids), targets,
                               [id \in ids |-> [day \in 1..days |-> 0]],
                               NoLocks(days), NoDoctor, seed)
    /\ pc = "validate"
    /\ sp = "idle"
    /\ state = createInitialState
    /\ stack = <<>>
    /\ retVal = FALSE
    /\ rng = makeRng(input.seed)
    /\ strictAttempt = NoAttempt
    /\ fallbackAttempt = NoAttempt
    /\ proposal = EmptyProposal
    /\ result = NoResult
    /\ runNo = 1
    /\ firstResult = NoResult

SpecTwice == InitTwice /\ [][NextTwice]_vars

\* App.tsx, lockAllFromCurrentResult: every day is locked to the doctor the
\* current success roster gives it and the request is submitted again
LockAllFromCurrentResult ==
    /\ pc = "done"
    /\ result.ok
    /\ runNo = 1
    /\ input' = [input EXCEPT !.locks =
                     [day \in 1..daysInMonth |-> result.assignments[day]]]
    /\ runNo' = 2
    /\ firstResult' = result
    /\ pc' = "validate"
    /\ sp' = "idle"
    /\ state' = createInitialState
    /\ stack' = <<>>
    /\ retVal' = FALSE
    /\ rng' = makeRng(input.seed)
    /\ strictAttempt' = NoAttempt
    /\ fallbackAttempt' = NoAttempt
    /\ proposal' = EmptyProposal
    /\ result' = NoResult

NextLockAll == Next \/ LockAllFromCurrentResult

\* short months without locks, with wants or with configured maxima
InitLockAll ==
    /\ \/ WantRequest(input)
       \/ CapacityRequest(input)
    /\ pc = "validate"
    /\ sp = "idle"
    /\ state = createInitialState
    /\ stack = <<>>
    /\ retVal = FALSE
    /\ rng = makeRng(input.seed)
    /\ strictAttempt = NoAttempt
    /\ fallbackAttempt = NoAttempt
    /\ proposal = EmptyProposal
    /\ result = NoResult
    /\ runNo = 1
    /\ firstResult = NoResult

SpecLockAll == InitLockAll /\ [][NextLockAll]_vars

\* the array s in reverse
Reverse(s) == [i \in 1..Len(s) |-> s[Len(s) + 1 - i]]

\* short months without locks whose doctors array is in ascending or in
\* descending rank: up to MaxPrefs "want" cells, targets 0 or 1, the default
\* maxima or the maximum 1.5 for all
RankedRequest(r) ==
    \E days \in 1..MaxDays, wd \in StartWeekdays, ids \in CoreTeams :
        \E cap \in {NotFinite, Raw(3)}, targets \in [ids -> {NotFinite, Raw(3)}],
           prefs \in SparsePreferences(ids, days, MaxPrefs, {3}),
           descending \in BOOLEAN :
            LET sorted == Request(days, wd, ids, [id \in ids |-> cap], targets, prefs,
                                  NoLocks(days), NoDoctor, <<>>)
            IN r = IF descending THEN [sorted EXCEPT !.doctors = Reverse(@)] ELSE sorted

InitRanked ==
    /\ RankedRequest(input)
    /\ pc = "validate"
    /\ sp = "idle"
    /\ state = createInitialState
    /\ stack = <<>>
    /\ retVal = FALSE
    /\ rng = makeRng(input.seed)
    /\ strictAttempt = NoAttempt
    /\ fallbackAttempt = NoAttempt
    /\ proposal = EmptyProposal
    /\ result = NoResult
    /\ runNo = 1
    /\ firstResult = NoResult

SpecRanked == InitRanked /\ [][Next]_vars

-----------------------------------------------------------------------------
(* Observations used by the properties *)

ResultSuccess == result.done /\ result.ok

\* the result was produced after both solver passes had failed
ViaProposal == fallbackAttempt.done /\ ~fallbackAttempt.ok

ShiftCount(assignments, id) ==
    Cardinality({day \in DOMAIN assignments : assignments[day] = id})

BlocksOf(assignments, id) ==
    {weekendBlockKey(day)[1] :
        day \in {d \in DOMAIN assignments :
                    assignments[d] = id /\ weekendBlockKey(d) # <<>>}}

LocksValid == Len(validateLocks(Caps, Targets, Wanted)) = 0

\* a complete roster can be built by some sequence of assignments, each
\* hard-eligible under the strict rules when it is made
RECURSIVE StrictBuildable(_)
StrictBuildable(st) ==
    \/ UnassignedDays(st) = {}
    \/ \E day \in UnassignedDays(st), i \in 1..Len(input.doctors) :
           /\ isHardAllowed(day, input.doctors[i], st, Caps, TRUE, Targets, Wanted)
           /\ StrictBuildable(applyAssignment(st, day, input.doctors[i].id))

-----------------------------------------------------------------------------
(* Properties *)

\* C1: in every success result no worker's number of assigned days exceeds
\* its cap (1 for the lead-primary, 2 for the lead-deputy, the configured
\* maximum, default 5, for a regular worker).
C1_SuccessWithinCaps ==
    ResultSuccess =>
        \A i \in 1..Len(input.doctors) :
            LET doctor == input.doctors[i]
                cap == IF doctor.role = "primar" THEN 1
                       ELSE IF doctor.role = "zastupce" THEN 2
                       ELSE IF input.maxShiftsByDoctor[doctor.id].finite
                            THEN Max0(Floor(input.maxShiftsByDoctor[doctor.id]))
                            ELSE 5
            IN ShiftCount(result.assignments, doctor.id) <= cap

\* C2: two calls of generateSchedule on the same request (same seed, or no
\* seed in both) return the same outcome and the same roster.
C2_SameRequestSameResult ==
    (runNo = 2 /\ result.done) =>
        /\ result.ok = firstResult.ok
        /\ result.assignments = firstResult.assignments

\* C3: if lock validation passes, the sanitized targets sum to the number of
\* days and a complete roster can be built by strict-eligible assignments,
\* then the strict pass succeeds and every worker's count in the returned
\* roster equals its target.
C3_StrictPassComplete ==
    (/\ strictAttempt.done
     /\ LocksValid
     /\ SumTargets(1) = daysInMonth
     /\ StrictBuildable(createInitialState))
    => /\ strictAttempt.ok
       /\ result.done =>
              /\ result.ok
              /\ \A id \in DoctorIds : ShiftCount(result.assignments, id) = Targets[id]

\* C4: in every success result, for every day d and every worker v with
\* "want" on d whose final count is below v's target, day d is assigned to a
\* worker who wants d and whose rank is v's or a higher priority.
C4_WantHonoured ==
    ResultSuccess =>
        \A day \in 1..daysInMonth, v \in DoctorIds :
            (/\ preferenceAt(v, day) = 3
             /\ ShiftCount(result.assignments, v) < Targets[v])
            => /\ day \in DOMAIN result.assignments
               /\ result.assignments[day] \in DoctorIds
               /\ preferenceAt(result.assignments[day], day) = 3
               /\ DoctorById(result.assignments[day]).order <= DoctorById(v).order

\* C5: a request with every day locked and no lock issue returns success,
\* and the roster assigns every day the worker it was locked to.
C5_FullyLockedReturned ==
    (/\ result.done
     /\ \A day \in 1..daysInMonth : lockedDoctor(day) # NoDoctor
     /\ LocksValid)
    => /\ result.ok
       /\ \A day \in 1..daysInMonth :
              /\ day \in DOMAIN result.assignments
              /\ result.assignments[day] = lockedDoctor(day)

C5_Witness ==
    /\ result.done
    /\ result.ok
    /\ daysInMonth >= 2
    /\ \A day \in 1..daysInMonth : lockedDoctor(day) # NoDoctor
    /\ LocksValid

\* C6: every success result assigns exactly one existing worker to each day
\* 1..N; a draft of the proposal pass that leaves a day unassigned is
\* returned as a failure with the draft attached, never as a success.
C6_SuccessIsComplete ==
    /\ ResultSuccess =>
           /\ DOMAIN result.assignments = 1..daysInMonth
           /\ \A day \in 1..daysInMonth : result.assignments[day] \in DoctorIds
    /\ (/\ result.done
        /\ ViaProposal
        /\ \E day \in DOMAIN proposal.assignments : proposal.assignments[day] = NoDoctor)
       => /\ ~result.ok
          /\ result.hasProposal
          /\ result.partialProposal = proposal

\* a draft with some days filled and a gap, returned as a failure with the
\* draft attached
C6_Witness ==
    /\ result.done
    /\ ~result.ok
    /\ ViaProposal
    /\ result.hasProposal
    /\ \E day, other \in DOMAIN result.partialProposal.assignments :
           /\ result.partialProposal.assignments[day] = NoDoctor
           /\ result.partialProposal.assignments[other] \in DoctorIds

\* C7: in every success result the workers of day d and day d+1 differ, for
\* every d in 1..N-1.
C7_NoConsecutiveDays ==
    ResultSuccess =>
        \A day \in 1..(daysInMonth - 1) :
            result.assignments[day] # result.assignments[day + 1]

\* a success over several days in which one worker serves more than once
C7_Witness ==
    /\ ResultSuccess
    /\ daysInMonth >= 3
    /\ \E id \in DoctorIds : ShiftCount(result.assignments, id) >= 2

\* C8: in every success result no worker serves in more than 2 distinct
\* weekend blocks.
C8_AtMostTwoWeekendBlocks ==
    ResultSuccess =>
        \A id \in DoctorIds : Cardinality(BlocksOf(result.assignments, id)) <= 2

\* a success in a month with three weekend blocks where some worker serves
\* in two of them
C8_Witness ==
    /\ ResultSuccess
    /\ Cardinality({weekendBlockKey(day)[1] :
                       day \in {d \in 1..daysInMonth : weekendBlockKey(d) # <<>>}}) >= 3
    /\ \E id \in DoctorIds : Cardinality(BlocksOf(result.assignments, id)) = 2

\* C9: in every success result a lead is never assigned a Friday, Saturday
\* or Sunday, a worker of rank above 5 never a Tuesday or Thursday, and the
\* previous-month boundary worker never day 1.
C9_StaticDayRules ==
    ResultSuccess =>
        \A day \in 1..daysInMonth :
            LET doctor == DoctorById(result.assignments[day])
            IN /\ ~(doctor.role \in {"primar", "zastupce"} /\ weekday(day) \in {5, 6, 0})
               /\ ~(doctor.order > 5 /\ weekday(day) \in {2, 4})
               /\ ~(day = 1 /\ doctor.id = input.lastDoctorId)

\* a success for a team with a lead and a non-certified worker, in a month
\* with a weekend day and a Tuesday or Thursday, with a boundary worker
C9_Witness ==
    /\ ResultSuccess
    /\ input.lastDoctorId \in DoctorIds
    /\ \E i, j \in 1..Len(input.doctors) :
           /\ isLeadershipDoctor(input.doctors[i])
           /\ ~isCertifiedDoctor(input.doctors[j])
    /\ \E d, e \in 1..daysInMonth : isWeekendServiceDay(d) /\ isTuesdayOrThursday(e)

\* C10: in every success result no worker is assigned to a day on which its
\* preference is "cannot".
C10_NoCannotAssigned ==
    ResultSuccess =>
        \A day \in 1..daysInMonth : preferenceAt(result.assignments[day], day) # 1

\* a success for a request in which some worker cannot serve some day
C10_Witness ==
    /\ ResultSuccess
    /\ \E id \in DoctorIds, day \in 1..daysInMonth : preferenceAt(id, day) = 1


\* C11: in every success result every locked day is assigned to the worker it
\* is locked to.
C11_LocksHonoured ==
    ResultSuccess =>
        \A day \in 1..daysInMonth :
            lockedDoctor(day) # NoDoctor =>
                /\ day \in DOMAIN result.assignments
                /\ result.assignments[day] = lockedDoctor(day)

\* a success for a request with a locked day and a free day
C11_Witness ==
    /\ ResultSuccess
    /\ \E day, other \in 1..daysInMonth :
           /\ lockedDoctor(day) # NoDoctor
           /\ lockedDoctor(other) = NoDoctor

\* the days locked to a doctor of the request whose preference there is "cannot"
CannotLocks ==
    {day \in 1..daysInMonth :
        /\ lockedDoctor(day) \in DoctorIds
        /\ preferenceAt(lockedDoctor(day), day) = 1}

\* C12: a request that locks a worker on a day where that worker's preference
\* is "cannot" returns a failure whose conflict list has an entry naming that
\* day and that worker, and neither solver pass nor the proposal builder runs
\* (the failure carries no partial proposal).
C12_CannotLockRejected ==
    CannotLocks # {} =>
        /\ pc \in {"validate", "done"}
        /\ ~strictAttempt.done
        /\ ~fallbackAttempt.done
        /\ state = createInitialState
        /\ proposal = EmptyProposal
        /\ result.done =>
               /\ ~result.ok
               /\ ~result.hasProposal
               /\ \A day \in CannotLocks :
                      \E i \in 1..Len(result.conflicts) :
                          result.conflicts[i] = Issue("cannot", day, lockedDoctor(day))

\* the failure returned for a request with such a lock
C12_Witness ==
    /\ CannotLocks # {}
    /\ result.done
    /\ ~result.ok
    /\ daysInMonth >= 2


\* C13: the phases run in a fixed order and only on failure of the previous
\* one: with a lock issue the result is a failure carrying exactly the
\* validator's issue list and no solver pass runs; the relaxed pass runs only
\* after the strict pass has failed; the proposal builder runs only after both
\* solver passes have failed.
C13_PhaseOrder ==
    /\ ~LocksValid =>
           /\ pc \in {"validate", "done"}
           /\ ~strictAttempt.done
           /\ ~fallbackAttempt.done
           /\ state = createInitialState
           /\ result.done =>
                  result = Failure(validateLocks(Caps, Targets, Wanted), FALSE,
                                   EmptyProposal)
    /\ pc = "strict" => ~strictAttempt.done /\ ~fallbackAttempt.done
    /\ (pc = "relaxed" \/ fallbackAttempt.done) =>
           strictAttempt.done /\ ~strictAttempt.ok
    /\ (pc = "proposal" \/ proposal # EmptyProposal) =>
           /\ strictAttempt.done /\ ~strictAttempt.ok
           /\ fallbackAttempt.done /\ ~fallbackAttempt.ok
    /\ (pc = "relaxed" /\ sp # "start") => proposal = EmptyProposal

\* the proposal builder at work after a strict and a relaxed search have both
\* failed
C13_Witness ==
    /\ pc = "proposal"
    /\ proposal.assignments # <<>>
    /\ strictAttempt.reason = "nosolution"
    /\ fallbackAttempt.reason = "nosolution"


SumMismatch == SumTargets(1) # daysInMonth

\* C14: when lock validation passes and the sanitized targets do not sum to
\* the number of days, the strict pass fails before making any assignment (no
\* search step is taken) with the sum-mismatch reason, and the relaxed pass is
\* then attempted.
C14_SumMismatchSkipsStrictSearch ==
    (LocksValid /\ SumMismatch) =>
        /\ pc = "strict" =>
               /\ sp = "start"
               /\ stack = <<>>
               /\ state = createInitialState
        /\ strictAttempt.done =>
               /\ strictAttempt = AttemptFailed("sum")
               /\ pc # "strict"
        /\ (strictAttempt.done /\ pc = "relaxed" /\ sp = "start") =>
               /\ ~fallbackAttempt.done
               /\ state = createInitialState
        /\ result.done => strictAttempt.done /\ fallbackAttempt.done

\* the step the strict pass takes on a sum mismatch: it records the
\* sum-mismatch failure, assigns nothing and hands over to the relaxed pass
C14_StrictStepOnMismatch ==
    [][(pc = "strict" /\ sp = "start" /\ SumMismatch) =>
           /\ strictAttempt' = AttemptFailed("sum")
           /\ pc' = "relaxed"
           /\ sp' = "start"
           /\ state' = state
           /\ stack' = stack
           /\ rng' = rng]_vars

\* the relaxed pass has run after the strict pass failed on a sum mismatch
C14_Witness ==
    /\ LocksValid
    /\ SumMismatch
    /\ strictAttempt = AttemptFailed("sum")
    /\ fallbackAttempt.done
    /\ daysInMonth >= 2


\* C15: a failure that is not a lock-validation failure lists exactly the
\* strict pass's reason followed by the relaxed pass's reason (each the
\* sum-mismatch or the no-solution reason) and carries a partial proposal with
\* at least one unassigned day.
C15_FailureCarriesReasonsAndDraft ==
    (result.done /\ ~result.ok /\ LocksValid) =>
        /\ strictAttempt.done /\ ~strictAttempt.ok
        /\ fallbackAttempt.done /\ ~fallbackAttempt.ok
        /\ strictAttempt.reason \in {"sum", "nosolution"}
        /\ fallbackAttempt.reason \in {"sum", "nosolution"}
        /\ result.conflicts = <<Issue(strictAttempt.reason, 0, NoDoctor),
                                Issue(fallbackAttempt.reason, 0, NoDoctor)>>
        /\ result.hasProposal
        /\ DOMAIN result.partialProposal.assignments = 1..daysInMonth
        /\ \E day \in 1..daysInMonth :
               result.partialProposal.assignments[day] = NoDoctor

\* a failure after a sum mismatch and a failed relaxed search, with a draft
\* that fills some day
C15_Witness ==
    /\ result.done
    /\ ~result.ok
    /\ LocksValid
    /\ strictAttempt.reason = "sum"
    /\ fallbackAttempt.reason = "nosolution"
    /\ \E day \in 1..daysInMonth :
           result.partialProposal.assignments[day] \in DoctorIds


\* C16: the lock validator and the solver never disagree about forced wants:
\* if validateLocks reports no issue, then in the solver's initial state (all
\* counts zero) the forced-want worker of every locked day, computed from the
\* live counts, is absent or is the locked worker.
C16_ValidatorAgreesWithSolver ==
    (/\ pc \in {"strict", "relaxed"}
     /\ sp = "call"
     /\ state = createInitialState
     /\ LocksValid)
    => \A day \in 1..daysInMonth :
           lockedDoctor(day) # NoDoctor =>
               forcedWantDoctorForDay(day, Wanted, state.counts, Targets)
                   \in {NoDoctor, lockedDoctor(day)}


\* the states of a solver pass in which backtrack() looks at the working state
InSearch == pc \in {"strict", "relaxed"} /\ sp \in {"call", "loop", "applied"}

\* C17: forward-check pruning is sound: if in a search state an unassigned
\* day has no hard-eligible worker, then after a further hard-eligible
\* assignment to another day that day still has no hard-eligible worker.
C17_DeadDayStaysDead ==
    InSearch =>
        \A day \in UnassignedDays(state) :
            Len(HardCandidates(day, state, StrictTargets)) = 0 =>
                \A other \in UnassignedDays(state) \ {day},
                   i \in 1..Len(input.doctors) :
                    isHardAllowed(other, input.doctors[i], state, Caps,
                                  StrictTargets, Targets, Wanted)
                    => Len(HardCandidates(
                              day,
                              applyAssignment(state, other, input.doctors[i].id),
                              StrictTargets)) = 0


\* C18: locking is idempotent on a success: re-running a request that
\* returned success with every day locked to the worker of that roster
\* returns success with the identical roster.
C18_LockAllIdempotent ==
    (runNo = 2 /\ result.done) =>
        /\ result.ok
        /\ result.assignments = firstResult.assignments


\* C19: applyAssignment and the solver's undo step are exact inverses on the
\* whole working state (assignments, counts, weekend-block counts with the
\* key removed when its count returns to zero, distinct-block totals), and a
\* solver pass that returns failure leaves the working state equal to the
\* initial empty state.
C19_ApplyUndoInverse ==
    /\ (pc \in {"strict", "relaxed"} /\ sp \in {"call", "loop"}) =>
           \A day \in UnassignedDays(state), id \in DoctorIds :
               undoAssignment(applyAssignment(state, day, id), day, id) = state
    /\ (pc \in {"strict", "relaxed"} /\ sp = "ret" /\ stack = <<>> /\ ~retVal) =>
           state = createInitialState
    /\ (pc = "relaxed" /\ sp = "start") => state = createInitialState

\* a relaxed search over a month with a weekend day that tried candidates,
\* undid them and returned failure
C19_Witness ==
    /\ pc = "relaxed"
    /\ sp = "ret"
    /\ stack = <<>>
    /\ ~retVal
    /\ EveryDayHasCandidate(state, FALSE)
    /\ \E day \in 1..daysInMonth : weekendBlockKey(day) # <<>>


\* C20: in every state of a solver pass or of the proposal pass the
\* bookkeeping agrees with the assignment map: each worker's running count is
\* the number of days assigned to it, and its distinct-block total is the
\* number of distinct weekend-block keys among its assigned days.
C20_BookkeepingAgrees ==
    \A id \in DoctorIds :
        /\ state.counts[id] = ShiftCount(state.assignments, id)
        /\ state.weekendBlockTotals[id] = Cardinality(BlocksOf(state.assignments, id))
        /\ DOMAIN state.weekendBlocksByDoctor[id] = BlocksOf(state.assignments, id)
        /\ \A key \in DOMAIN state.weekendBlocksByDoctor[id] :
               state.weekendBlocksByDoctor[id][key] =
                   Cardinality({day \in DOMAIN state.assignments :
                                   /\ state.assignments[day] = id
                                   /\ weekendBlockKey(day) = <<key>>})

\* a search state in which a worker holds two days of one weekend block
C20_Witness ==
    /\ pc \in {"strict", "relaxed", "proposal"}
    /\ \E id \in DoctorIds :
           \E key \in DOMAIN state.weekendBlocksByDoctor[id] :
               state.weekendBlocksByDoctor[id][key] = 2



\* C21: the solver only recurses from globally forward-checked states: after
\* an assignment is applied, backtrack() is called again only if every
\* still-unassigned day has at least one hard-eligible worker in the updated
\* state; otherwise the assignment is undone and the next candidate is tried.
C21_RecursesOnlyForwardChecked ==
    [][/\ (sp = "applied" /\ sp' = "call") =>
              /\ state' = state
              /\ EveryDayHasCandidate(state, StrictTargets)
       /\ (sp = "applied" /\ ~EveryDayHasCandidate(state, StrictTargets)) =>
              /\ sp' = "undo"
              /\ state' = state
              /\ stack' = stack
       /\ sp = "undo" =>
              /\ sp' = "loop"
              /\ state' = undoAssignment(state, Top.targetDay, Top.candidates[Top.idx].id)
              /\ Len(stack') = Len(stack)
              /\ stack'[Len(stack)].idx = Top.idx + 1
              /\ stack'[Len(stack)].candidates = Top.candidates
       /\ (sp' = "call" /\ stack' # <<>>) =>
              /\ sp = "applied"
              /\ EveryDayHasCandidate(state', StrictTargets)]_vars

\* an assignment about to be undone because a later day, not the first
\* unassigned one, was left without a hard-eligible worker
C21_Witness ==
    /\ pc \in {"strict", "relaxed"}
    /\ sp = "undo"
    /\ \E day, earlier \in UnassignedDays(state) :
           /\ earlier < day
           /\ Len(HardCandidates(day, state, StrictTargets)) = 0
           /\ \A d \in UnassignedDays(state) :
                  d < day => Len(HardCandidates(d, state, StrictTargets)) > 0



\* C22: at each search step the solver branches on the unassigned day that
\* has the fewest hard-eligible workers in the current state, and among days
\* with the same fewest number on the lowest-numbered one; the candidates it
\* tries are the hard-eligible workers of that day.
C22_BranchesOnMostConstrainedDay ==
    (pc \in {"strict", "relaxed"} /\ sp = "loop") =>
        /\ Top.targetDay \in UnassignedDays(state)
        /\ \A other \in UnassignedDays(state) :
               LET n == Len(HardCandidates(Top.targetDay, state, StrictTargets))
                   m == Len(HardCandidates(other, state, StrictTargets))
               IN n < m \/ (n = m /\ Top.targetDay <= other)
        /\ Range(Top.candidates) = Range(HardCandidates(Top.targetDay, state, StrictTargets))
        /\ Len(Top.candidates) = Len(HardCandidates(Top.targetDay, state, StrictTargets))

\* a search step that branches on a day other than the first unassigned one,
\* while another unassigned day has as few candidates as the chosen one
C22_Witness ==
    /\ pc \in {"strict", "relaxed"}
    /\ sp = "loop"
    /\ \E earlier, later \in UnassignedDays(state) :
           /\ earlier < Top.targetDay
           /\ Top.targetDay < later
           /\ Len(HardCandidates(later, state, StrictTargets))
                  = Len(HardCandidates(Top.targetDay, state, StrictTargets))



\* the workers with "want" on the day whose live count is below their target
OpenWanters(day) ==
    {id \in DoctorIds : preferenceAt(id, day) = 3 /\ state.counts[id] < Targets[id]}

\* C23: forcedWantDoctorForDay returns, for a day and the live counts, the
\* worker of lowest rank number among those with "want" on that day whose
\* current count is strictly below their target, and none when no worker wants
\* the day or every wanter's count has reached its target.
C23_ForcedWantIsFirstOpenWanter ==
    \A day \in 1..daysInMonth :
        LET forcedWantDoctorId == forcedWantDoctorForDay(day, Wanted, state.counts, Targets)
        IN IF OpenWanters(day) = {} THEN forcedWantDoctorId = NoDoctor
           ELSE /\ forcedWantDoctorId \in OpenWanters(day)
                /\ \A other \in OpenWanters(day) :
                       DoctorById(forcedWantDoctorId).order <= DoctorById(other).order

\* a state after some assignment, of a request whose doctors array is in
\* descending rank, in which a day has two wanters below their targets and the
\* forced one is not the first of the array
C23_Witness ==
    /\ state.assignments # <<>>
    /\ Len(input.doctors) >= 2
    /\ input.doctors[1].order > input.doctors[2].order
    /\ \E day \in 1..daysInMonth : Cardinality(OpenWanters(day)) = 2
           /\ forcedWantDoctorForDay(day, Wanted, state.counts, Targets) # input.doctors[1].id

\* a wanted day whose only wanter has reached its target, so that no want is
\* forced
C23_Settled ==
    /\ \E day \in 1..daysInMonth, id \in DoctorIds :
           /\ preferenceAt(id, day) = 3
           /\ Targets[id] >= 1
           /\ state.counts[id] >= Targets[id]
           /\ forcedWantDoctorForDay(day, Wanted, state.counts, Targets) = NoDoctor



\* the candidates of s (a sequence of doctors) for the day are in the order
\* "want" first, the wanters in ascending rank
WantFirstByRank(s, day) ==
    \A i, j \in 1..Len(s) :
        i < j =>
            /\ preferenceAt(s[j].id, day) = 3 => preferenceAt(s[i].id, day) = 3
            /\ (preferenceAt(s[i].id, day) = 3 /\ preferenceAt(s[j].id, day) = 3) =>
                   s[i].order <= s[j].order

\* the candidates the solver tries are ordered "want" first by rank
SolverTriesWantFirst ==
    (pc \in {"strict", "relaxed"} /\ sp = "loop") =>
        WantFirstByRank(Top.candidates, Top.targetDay)

\* the proposal builder never picks a candidate without "want" while a
\* hard-eligible candidate wants the day
ProposalPicksAWanter ==
    [][(pc = "proposal" /\ pc' = "proposal") =>
           LET day == ProposalDayNo
               candidates == HardCandidates(day, state, FALSE)
           IN (\E i \in 1..Len(candidates) : preferenceAt(candidates[i].id, day) = 3) =>
                  preferenceAt(proposal'.assignments[day], day) = 3]_vars

\* C24: whenever candidates for a day are ordered before being tried or
\* picked, every candidate with "want" on that day comes before every
\* candidate without it regardless of numeric score, and two "want"
\* candidates are ordered by ascending rank, both in the solver and when the
\* proposal builder picks its best-scored candidate.
C24_WantFirstThenRank ==
    [][/\ (pc \in {"strict", "relaxed"} /\ sp = "loop") =>
              WantFirstByRank(Top.candidates, Top.targetDay)
       /\ (pc = "proposal" /\ pc' = "proposal") =>
              LET day == ProposalDayNo
                  candidates == HardCandidates(day, state, FALSE)
                  wanters == {i \in 1..Len(candidates) :
                                 preferenceAt(candidates[i].id, day) = 3}
              IN wanters # {} =>
                     \E i \in wanters :
                         /\ proposal'.assignments[day] = candidates[i].id
                         /\ \A j \in wanters : candidates[i].order <= candidates[j].order]_vars



\* the workers that pass the discussion-safe rules for the day in the
\* proposal builder's current state
DiscussionSafe(day) ==
    {id \in DoctorIds : isBaseHardAllowedForDiscussion(day, DoctorById(id), state)}

\* C25: in the proposal builder a day with no hard-eligible worker (relaxed
\* rules) but at least one discussion-safe worker is provisionally assigned
\* the discussion-safe worker of lowest rank number and is recorded with the
\* full list of discussion-safe worker ids in ascending rank; a day with no
\* discussion-safe worker is left unassigned and recorded with an empty list;
\* recorded days appear in ascending day order, each at most once, and
\* committed days are never revised.
C25_DiscussionFallback ==
    [][(pc = "proposal" /\ pc' = "proposal") =>
           LET day == ProposalDayNo
               noCandidate == Len(HardCandidates(day, state, FALSE)) = 0
               safe == DiscussionSafe(day)
               recorded == proposal.unassignedDays
               recordedNext == proposal'.unassignedDays
               last == recordedNext[Len(recordedNext)]
           IN /\ DOMAIN proposal'.assignments = DOMAIN proposal.assignments \cup {day}
              /\ \A d \in DOMAIN proposal.assignments :
                     proposal'.assignments[d] = proposal.assignments[d]
              /\ ~noCandidate => recordedNext = recorded
              /\ noCandidate =>
                     /\ recordedNext = Append(recorded, last)
                     /\ last.day = day
                     /\ Range(last.candidateDoctorIds) = safe
                     /\ Len(last.candidateDoctorIds) = Cardinality(safe)
                     /\ \A i, j \in 1..Len(last.candidateDoctorIds) :
                            i < j => DoctorById(last.candidateDoctorIds[i]).order
                                        < DoctorById(last.candidateDoctorIds[j]).order
                     /\ IF safe = {}
                        THEN /\ proposal'.assignments[day] = NoDoctor
                             /\ state' = state
                        ELSE /\ proposal'.assignments[day] \in safe
                             /\ \A other \in safe :
                                    DoctorById(proposal'.assignments[day]).order
                                        <= DoctorById(other).order
                             /\ state' = applyAssignment(state, day, proposal'.assignments[day])
              /\ \A i, j \in 1..Len(recordedNext) :
                     i < j => recordedNext[i].day < recordedNext[j].day]_vars

\* a draft of a request whose doctors array is in descending rank, with a
\* recorded day that had several discussion-safe workers
C25_Witness ==
    /\ pc \in {"proposal", "done"}
    /\ input.doctors[1].order > input.doctors[Len(input.doctors)].order
    /\ \E i \in 1..Len(proposal.unassignedDays) :
           /\ Len(proposal.unassignedDays[i].candidateDoctorIds) >= 2
           /\ proposal.assignments[proposal.unassignedDays[i].day]
                  = proposal.unassignedDays[i].candidateDoctorIds[1]

\* a draft with a recorded day that had no discussion-safe worker, after a
\* recorded day that had one
C25_EmptyListRecorded ==
    /\ pc \in {"proposal", "done"}
    /\ \E i, j \in 1..Len(proposal.unassignedDays) :
           /\ i < j
           /\ proposal.unassignedDays[i].candidateDoctorIds # <<>>
           /\ proposal.unassignedDays[j].candidateDoctorIds = <<>>
           /\ proposal.assignments[proposal.unassignedDays[j].day] = NoDoctor



\* the days a draft assigns a worker to
Filled(assignments) == {day \in DOMAIN assignments : assignments[day] # NoDoctor}

\* a draft respects the discussion-safe rules on all its assigned days
DiscussionSafeDraft(assignments) ==
    /\ \A day \in Filled(assignments) :
           LET id == assignments[day]
           IN /\ id \in DoctorIds
              /\ lockedDoctor(day) \in {NoDoctor, id}
              /\ preferenceAt(id, day) # 1
              /\ ~(day = 1 /\ id = input.lastDoctorId)
              /\ ~(DoctorById(id).role \in {"primar", "zastupce"}
                     /\ weekday(day) \in {5, 6, 0})
              /\ ~(weekday(day) \in {2, 4} /\ DoctorById(id).order > 5)
              /\ (day + 1) \in Filled(assignments) => assignments[day + 1] # id
    /\ \A id \in DoctorIds :
           Cardinality(BlocksOf([day \in Filled(assignments) |-> assignments[day]], id)) <= 2

\* C26: every partial proposal, whether returned as a failure draft or
\* promoted to success, respects the discussion-safe rules on all its assigned
\* days: locks, "cannot" bans, the day-1 boundary rule, the lead weekend ban,
\* Tuesday/Thursday certification, no same worker on adjacent days, and at
\* most 2 distinct weekend blocks per worker.
C26_DraftIsDiscussionSafe ==
    /\ DiscussionSafeDraft(proposal.assignments)
    /\ (result.done /\ ViaProposal) =>
           IF result.ok THEN /\ result.assignments = proposal.assignments
                             /\ DiscussionSafeDraft(result.assignments)
           ELSE /\ result.partialProposal.assignments = proposal.assignments
                /\ DiscussionSafeDraft(result.partialProposal.assignments)

\* a returned draft with a day filled by the discussion-safe fallback, of a
\* request with a lock, in a month with a weekend day
C26_Witness ==
    /\ result.done
    /\ ViaProposal
    /\ \E i \in 1..Len(proposal.unassignedDays) :
           proposal.unassignedDays[i].candidateDoctorIds # <<>>
    /\ \E day \in 1..daysInMonth : lockedDoctor(day) # NoDoctor
    /\ \E day \in 1..daysInMonth : isWeekendServiceDay(day)


\* a draft over a month with three weekend blocks in which a worker serves in
\* two of them
C26_TwoBlocksInDraft ==
    /\ pc \in {"proposal", "done"}
    /\ ViaProposal
    /\ daysInMonth = LongDays
    /\ \E id \in DoctorIds :
           Cardinality(BlocksOf([day \in Filled(proposal.assignments) |->
                                    proposal.assignments[day]], id)) = 2



\* the per-day rules the lock of the day to the id violates: the forced-want
\* rule against the locks of the earlier days, "cannot", the lead weekend
\* ban, certification, the day-1 boundary and the preceding locked day
ViolatedLockRules(day, id) ==
    LET open == {w \in DoctorIds :
                    /\ preferenceAt(w, day) = 3
                    /\ Cardinality({d \in 1..(day - 1) : lockedDoctor(d) = w}) < Targets[w]}
        known == id \in DoctorIds
    IN {kind \in {"want", "cannot", "leadWeekend", "notCertified", "boundary", "consecutive"} :
           \/ kind = "want" /\ open # {}
                  /\ \E w \in open : /\ w # id
                                      /\ \A o \in open : DoctorById(w).order <= DoctorById(o).order
           \/ kind = "cannot" /\ known /\ preferenceAt(id, day) = 1
           \/ kind = "leadWeekend" /\ known
                  /\ DoctorById(id).role \in {"primar", "zastupce"}
                  /\ weekday(day) \in {5, 6, 0}
           \/ kind = "notCertified" /\ known
                  /\ DoctorById(id).order > 5
                  /\ weekday(day) \in {2, 4}
           \/ kind = "boundary" /\ day = 1 /\ id = input.lastDoctorId
           \/ kind = "consecutive" /\ day > 1 /\ lockedDoctor(day - 1) = id}

\* the issues a lock list must raise after the walk: a worker locked on more
\* days than its cap, a worker locked in more than 2 distinct weekend blocks
ViolatedLockTotals ==
    {Issue("cap", 0, id) : id \in {w \in DoctorIds : Cardinality(LockedDays(w)) > Caps[w]}}
    \cup {Issue("weekendBlocks", 0, id) :
              id \in {w \in DoctorIds : Cardinality(LockedWeekendBlocks(w)) > 2}}

LockedDaysOfRequest == {day \in 1..daysInMonth : lockedDoctor(day) # NoDoctor}

\* C27 as stated: validateLocks accumulates instead of failing fast: for
\* every locked day and each per-day rule that lock violates the issue list
\* contains an entry, and after the walk one entry is added for each worker
\* whose locked-day count exceeds its cap and for each worker whose locked
\* days span more than 2 distinct weekend blocks.
C27_EveryViolationListed ==
    pc = "done" =>
        LET issues == IF ~result.ok /\ ~result.hasProposal THEN result.conflicts ELSE <<>>
        IN /\ \A day \in LockedDaysOfRequest :
                  \A kind \in ViolatedLockRules(day, lockedDoctor(day)) :
                      Issue(kind, day, lockedDoctor(day)) \in Range(issues)
           /\ ViolatedLockTotals \subseteq Range(issues)

\* C27 as amended: for every day locked to a worker of the request and each
\* per-day rule that lock violates the issue list contains one entry, a day
\* locked to an id that is no worker of the request gets the single entry
\* "does not exist" and is checked against no other rule, and after the walk
\* one entry is added for each worker over its cap and for each worker over
\* 2 weekend blocks; the list holds nothing else, and it is the conflict list
\* of the failure returned.
C27_ViolationsOfKnownWorkersListed ==
    pc \in {"validate", "done"} =>
        LET issues == validateLocks(Caps, Targets, Wanted)
            expected ==
                UNION {IF lockedDoctor(day) \in DoctorIds
                       THEN {Issue(kind, day, lockedDoctor(day)) :
                                kind \in ViolatedLockRules(day, lockedDoctor(day))}
                       ELSE {Issue("missing", day, lockedDoctor(day))}
                       : day \in LockedDaysOfRequest}
                \cup ViolatedLockTotals
        IN /\ Range(issues) = expected
           /\ Len(issues) = Cardinality(expected)
           /\ \A i, j \in 1..Len(issues) :
                  (i < j /\ issues[j].day # 0) =>
                      issues[i].day # 0 /\ issues[i].day <= issues[j].day
           /\ (pc = "done" /\ Len(issues) > 0) => result.conflicts = issues

\* a failure whose conflict list holds two entries for one locked day, an
\* entry for a later locked day and an entry of the checks after the walk
C27_Witness ==
    /\ pc = "done"
    /\ \E i, j, k, l \in 1..Len(result.conflicts) :
           /\ i < j /\ j < k /\ k < l
           /\ result.conflicts[i].day = result.conflicts[j].day
           /\ result.conflicts[j].day < result.conflicts[k].day
           /\ result.conflicts[l].day = 0



\* the sum over the doctors array of target minus count
RECURSIVE Shortfall(_)
Shortfall(i) ==
    IF i > Len(input.doctors) THEN 0
    ELSE (Targets[input.doctors[i].id] - state.counts[input.doctors[i].id]) + Shortfall(i + 1)

\* C28: in the strict pass (entered only when the targets sum to the day
\* count) every search state has every worker's count at most its target and
\* the sum of the remaining target shortfalls equal to the number of
\* unassigned days; hence the strict target-feasibility check after an
\* assignment never rejects a state, and the terminal test that every count
\* equals its target is true whenever all days are assigned.
C28_StrictCountsTrackTargets ==
    (pc = "strict" /\ sp \in {"call", "loop", "applied", "undo", "ret"}) =>
        /\ SumTargets(1) = daysInMonth
        /\ \A id \in DoctorIds : state.counts[id] <= Targets[id]
        /\ Shortfall(1) = Cardinality(UnassignedDays(state))
        /\ strictTargetFeasible(state, Targets, daysInMonth)
        /\ UnassignedDays(state) = {} => TerminalOk(state, TRUE)

\* the strict pass has assigned every day of a month of several days in
\* which some worker asks for two days, after undoing an assignment
C28_Witness ==
    /\ pc = "strict"
    /\ sp = "applied"
    /\ UnassignedDays(state) = {}
    /\ daysInMonth >= 3
    /\ \E id \in DoctorIds : Targets[id] = 2
    /\ \E i \in 1..Len(stack) : stack[i].idx > 1



\* the forced-want worker of the day in the initial state: the wanter of
\* lowest rank number with a target of at least 1, NoDoctor when there is none
InitialForcedWant(day) ==
    LET wanters == {id \in DoctorIds : preferenceAt(id, day) = 3 /\ Targets[id] >= 1}
    IN IF wanters = {} THEN NoDoctor
       ELSE CHOOSE id \in wanters :
                \A other \in wanters : DoctorById(id).order <= DoctorById(other).order

\* the days whose initial forced-want worker may not serve them: a lead on a
\* Friday, Saturday or Sunday, a non-certified worker on a Tuesday or
\* Thursday, the boundary worker on day 1, a worker with cap 0
BlockedWantDays ==
    {day \in 1..daysInMonth :
        LET id == InitialForcedWant(day)
        IN /\ id # NoDoctor
           /\ \/ DoctorById(id).role \in {"primar", "zastupce"} /\ weekday(day) \in {5, 6, 0}
              \/ DoctorById(id).order > 5 /\ weekday(day) \in {2, 4}
              \/ day = 1 /\ id = input.lastDoctorId
              \/ Caps[id] = 0}

\* C29: if lock validation passes and in the initial state some day's
\* forced-want worker is itself not hard-eligible for that day (a lead on
\* Friday/Saturday/Sunday, a non-certified worker on Tuesday/Thursday, the
\* boundary worker on day 1, or a worker with cap 0), then no worker is
\* eligible for that day, both solver passes fail without making any
\* assignment, and the result is produced by the proposal builder.
C29_BlockedWantGoesToProposal ==
    (LocksValid /\ BlockedWantDays # {}) =>
        /\ \A day \in BlockedWantDays :
               /\ Len(HardCandidates(day, createInitialState, TRUE)) = 0
               /\ Len(HardCandidates(day, createInitialState, FALSE)) = 0
        /\ pc \in {"strict", "relaxed"} =>
               /\ state = createInitialState
               /\ stack = <<>>
               /\ sp \in {"start", "call", "ret"}
               /\ sp = "ret" => ~retVal
        /\ strictAttempt.done => ~strictAttempt.ok
        /\ fallbackAttempt.done => ~fallbackAttempt.ok
        /\ result.done =>
               /\ ViaProposal
               /\ DOMAIN proposal.assignments = 1..daysInMonth
               /\ IF result.ok THEN result.assignments = proposal.assignments
                  ELSE result.hasProposal /\ result.partialProposal = proposal

\* a result of the proposal builder for a request whose targets sum to the
\* day count (so that the strict pass searches) and in which the boundary
\* worker wants day 1
C29_Witness ==
    /\ result.done
    /\ LocksValid
    /\ 1 \in BlockedWantDays
    /\ InitialForcedWant(1) = input.lastDoctorId
    /\ strictAttempt.reason = "nosolution"
    /\ fallbackAttempt.reason = "nosolution"

\* a result for a request in which a worker with cap 0 is the forced want of
\* some day
C29_OtherBlocks ==
    /\ result.done
    /\ LocksValid
    /\ \E day \in BlockedWantDays : Caps[InitialForcedWant(day)] = 0



\* the outcomes of generateSchedule that describe the result
Outcomes ==
    {o \in {"Invalid", "Success", "SuccessRelaxed", "SuccessDraft", "Infeasible"} :
        \/ o = "Invalid" /\ ~result.ok /\ ~result.hasProposal /\ Len(result.conflicts) > 0
               /\ ~strictAttempt.done
        \/ o = "Success" /\ result.ok /\ strictAttempt.ok
               /\ result.assignments = strictAttempt.assignments
        \/ o = "SuccessRelaxed" /\ result.ok /\ ~strictAttempt.ok /\ fallbackAttempt.ok
               /\ result.assignments = fallbackAttempt.assignments
        \/ o = "SuccessDraft" /\ result.ok /\ ViaProposal
               /\ result.assignments = proposal.assignments
        \/ o = "Infeasible" /\ ~result.ok /\ ViaProposal /\ result.hasProposal
               /\ result.partialProposal = proposal}

\* C30: every call of generateSchedule terminates: each solver pass either
\* finds a complete roster or exhausts its finite search tree (each recursion
\* level assigns one more day and tries each candidate once), the proposal
\* pass visits each day once, and the orchestrator ends in exactly one of the
\* outcomes Invalid, Success, Success(relaxed), Success(draft) or Infeasible
\* with a draft attached.
C30_Terminates ==
    /\ <>(pc = "done")
    /\ [](pc = "done" => result.done /\ Cardinality(Outcomes) = 1)
    /\ [](pc \in {"strict", "relaxed"} =>
             /\ sp = "call" => Cardinality(DOMAIN state.assignments) = Len(stack)
             /\ sp = "ret" =>
                    Cardinality(DOMAIN state.assignments)
                        = IF retVal THEN daysInMonth ELSE Len(stack)
             /\ sp = "loop" => Cardinality(DOMAIN state.assignments) = Len(stack) - 1
             /\ sp \in {"applied", "undo"} =>
                    Cardinality(DOMAIN state.assignments) = Len(stack)
             /\ Len(stack) <= daysInMonth
             /\ \A k \in 1..Len(stack) :
                    /\ stack[k].idx \in 1..(Len(stack[k].candidates) + 1)
                    /\ \A i, j \in 1..Len(stack[k].candidates) :
                           i # j => stack[k].candidates[i] # stack[k].candidates[j])
    /\ [][/\ (Len(stack') = Len(stack) /\ stack' # stack) =>
                 /\ sp = "undo"
                 /\ stack'[Len(stack)].idx = Top.idx + 1
                 /\ \A k \in 1..(Len(stack) - 1) : stack'[k] = stack[k]
          /\ (pc = "proposal" /\ pc' = "proposal") =>
                 /\ DOMAIN proposal.assignments = 1..(ProposalDayNo - 1)
                 /\ DOMAIN proposal'.assignments = 1..ProposalDayNo
          /\ (pc = "proposal" /\ pc' = "done") =>
                 DOMAIN proposal.assignments = 1..daysInMonth]_vars

\* a call that returned after the relaxed pass had gone back over earlier
\* choices and failed
C30_Witness ==
    /\ pc = "done"
    /\ fallbackAttempt.reason = "nosolution"
    /\ daysInMonth >= 3
    /\ "Infeasible" \in Outcomes

====
